---------------------------- MODULE Spec2Model ----------------------------
(***************************************************************************)
(* Broker-order reconciliation and ledger synchronisation of the trading   *)
(* journal: server/services/tradelocker.js (groupPositionOrders,           *)
(* getContractMultiplier, normalizeTradeLockerTrade,                       *)
(* transformTradeLockerTrade) and the POST /sync handler of                *)
(* server/api/settings.js, with the Trade table and its unique index.      *)
(*                                                                         *)
(* Number representation.  Prices and quantities are integers in units of  *)
(* 0.01, FX rates and contract multipliers are integers in units of 0.01,  *)
(* money inside a computation is in units of 10^-6 dollar ("micro") and    *)
(* money stored on a record is in cents.  A missing numeric field is       *)
(* NullNum, a missing string field is the empty string (the code's get()   *)
(* maps '' to null and String(null || '') back to '').                     *)
(***************************************************************************)
EXTENDS Integers, Sequences, FiniteSets, TLC

NullNum == 0 - 1

\* ------------------------------------------------------------------------
\* Bounds of the model
\* ------------------------------------------------------------------------
MaxRuns == 2
MaxFailing == 4
InitialClock == 10

\* ------------------------------------------------------------------------
\* Small helpers for JavaScript idioms
\* ------------------------------------------------------------------------

\* v || 0 for a numeric field
OrZero(v) == IF v = NullNum THEN 0 ELSE v

\* v || null for a number: 0 and missing both give null
OrNull(v) == IF v = 0 THEN NullNum ELSE v

\* String.prototype.toLowerCase over the vocabulary of the wire format
ToLower(s) ==
  CASE s = "Filled" -> "filled"
    [] s = "FILLED" -> "filled"
    [] s = "Cancelled" -> "cancelled"
    [] s = "Pending" -> "pending"
    [] s = "Buy" -> "buy"
    [] s = "Sell" -> "sell"
    [] s = "True" -> "true"
    [] s = "False" -> "false"
    [] s = "Market" -> "market"
    [] s = "Stop" -> "stop"
    [] s = "Limit" -> "limit"
    [] OTHER -> s

\* String.prototype.toUpperCase over the time-in-force vocabulary
ToUpper(s) ==
  CASE s = "gtc" -> "GTC"
    [] s = "ioc" -> "IOC"
    [] OTHER -> s

\* String.prototype.trim over the identifiers the model uses
Trim(s) ==
  CASE s = " " -> ""
    [] s = " A" -> "A"
    [] s = "B " -> "B"
    [] OTHER -> s

\* Math.round(x * 100) / 100 for x in micro-dollars, result in cents.
\* Math.round rounds half towards +infinity, i.e. floor(y + 0.5).
Round2 (micro) == (micro + 5000) \div 10000

\* The increasing enumeration of a finite set of integers
SeqOfSet(S) ==
  [k \in 1..Cardinality(S) |-> CHOOSE i \in S : Cardinality({j \in S : j < i}) = k - 1]

\* The array holding the elements f[1], f[2], ... of f, each computed once
ArrayOf(f) == SubSeq(f, 1, Len(f))

\* Array.prototype.sort((a, b) => key(a) - key(b)): a stable ascending sort
\* of s, keys[i] being the sort key of s[i]
StableSort(s, keys) ==
  LET n == Len(s)
      rank == ArrayOf([i \in 1..n |->
                 Cardinality({j \in 1..n : keys[j] < keys[i] \/ (keys[j] = keys[i] /\ j < i)}) + 1])
      at == [k \in 1..n |-> CHOOSE i \in 1..n : rank[i] = k]
  IN ArrayOf([k \in 1..n |-> s[at[k]]])

\* Array.prototype.slice(-n)
SliceLast(s, n) ==
  IF Len(s) <= n THEN s ELSE SubSeq(s, Len(s) - n + 1, Len(s))

\* The elements of a sequence
Range(s) == {s[i] : i \in 1..Len(s)}


\* ------------------------------------------------------------------------
\* Instruments and the contract multiplier (tradelocker.js)
\* ------------------------------------------------------------------------

\* A symbol is the sequence of its characters, so that includes() and
\* startsWith() are computed and not assumed.
NAS100 == <<"N", "A", "S", "1", "0", "0">>
XAUUSD == <<"X", "A", "U", "U", "S", "D">>
DE40PRO == <<"D", "E", "4", "0", ".", "P", "R", "O">>
EURGBP == <<"E", "U", "R", "G", "B", "P">>
NoSymbol == <<>>

Letters ==
  {"A", "B", "C", "D", "E", "F", "G", "H", "I", "J", "K", "L", "M",
   "N", "O", "P", "Q", "R", "S", "T", "U", "V", "W", "X", "Y", "Z"}

\* s.includes(sub)
Includes(s, sub) ==
  \E i \in 1..(Len(s) - Len(sub) + 1) : SubSeq(s, i, i + Len(sub) - 1) = sub

\* s.startsWith(sub)
StartsWith(s, sub) ==
  Len(s) >= Len(sub) /\ SubSeq(s, 1, Len(sub)) = sub

\* symbol.toUpperCase().replace(/[.\s_]/g, ''): the symbols of the model are
\* upper case already
NormaliseSymbol(symbol) ==
  LET Keep(c) == c \notin {".", " ", "_"} IN SelectSeq(symbol, Keep)

\* s.replace('PRO', ''): the first occurrence only
RemoveFirstPRO(s) ==
  LET pro == <<"P", "R", "O">>
      hits == {i \in 1..(Len(s) - 2) : SubSeq(s, i, i + 2) = pro}
  IN IF hits = {} THEN s
     ELSE LET i == CHOOSE h \in hits : \A g \in hits : h <= g
          IN SubSeq(s, 1, i - 1) \o SubSeq(s, i + 3, Len(s))

eurIndices ==
  {<<"D", "E", "4", "0">>, <<"G", "E", "R", "4", "0">>, <<"D", "E", "3", "0">>,
   <<"G", "E", "R", "3", "0">>, <<"D", "A", "X">>, <<"F", "R", "A", "4", "0">>,
   <<"C", "A", "C", "4", "0">>, <<"E", "S", "P", "3", "5">>, <<"E", "U", "5", "0">>,
   <<"S", "T", "O", "X", "X", "5", "0">>, <<"S", "T", "O", "X", "X">>, <<"A", "E", "X">>,
   <<"S", "M", "I">>, <<"I", "B", "E", "X">>, <<"M", "I", "B">>,
   <<"F", "T", "S", "E", "M", "I", "B">>}

gbpIndices ==
  {<<"U", "K", "1", "0", "0">>, <<"F", "T", "S", "E">>, <<"U", "K", "X">>}

\* A lookup that takes 1.0 for every absent rate, whatever the call site's
\* default
RateOr_Parity(fxRates, pair, dflt) ==
  IF pair \in DOMAIN fxRates /\ fxRates[pair] # 0 THEN fxRates[pair] ELSE 100

\* fxRates.X || dflt, rates in units of 0.01; an absent rate is 0
RateOr(fxRates, pair, dflt) ==
  IF pair \in DOMAIN fxRates /\ fxRates[pair] # 0 THEN fxRates[pair] ELSE dflt

\* A conversion that divides by the GBPUSD rate
QuoteCcyToUSD_Inverse(fxRates, quoteCcy) ==
  IF quoteCcy = <<"G", "B", "P">> THEN 10000 \div RateOr(fxRates, "GBPUSD", 100) ELSE 100

\* quoteCcyToUSD[quoteCcy] ?? 1, in units of 0.01.  1 / rate is the integer
\* quotient 10000 \div rate of the fixed-point representation.
QuoteCcyToUSD(fxRates, quoteCcy) ==
  CASE quoteCcy = <<"U", "S", "D">> -> 100
    [] quoteCcy = <<"E", "U", "R">> -> RateOr(fxRates, "EURUSD", 100)
    [] quoteCcy = <<"G", "B", "P">> -> RateOr(fxRates, "GBPUSD", 100)
    [] quoteCcy = <<"A", "U", "D">> -> RateOr(fxRates, "AUDUSD", 100)
    [] quoteCcy = <<"N", "Z", "D">> -> RateOr(fxRates, "NZDUSD", 100)
    [] quoteCcy = <<"C", "A", "D">> ->
         RateOr(fxRates, "CADUSD", 10000 \div RateOr(fxRates, "USDCAD", 100))
    [] quoteCcy = <<"C", "H", "F">> ->
         RateOr(fxRates, "CHFUSD", 10000 \div RateOr(fxRates, "USDCHF", 100))
    [] quoteCcy = <<"J", "P", "Y">> ->
         RateOr(fxRates, "JPYUSD", 10000 \div RateOr(fxRates, "USDJPY", 10000))
    [] quoteCcy = <<"S", "G", "D">> ->
         RateOr(fxRates, "SGDUSD", 10000 \div RateOr(fxRates, "USDSGD", 130))
    [] OTHER -> 100

\* getContractMultiplier(symbol, fxRates, instrumentType), in units of 0.01
getContractMultiplier(symbol, fxRates, instrumentType) ==
  IF symbol = NoSymbol THEN 100
  ELSE
    LET s == NormaliseSymbol(symbol)
        isForex == \/ instrumentType = "FOREX"
                   \/ (instrumentType = "" /\ Len(s) = 6 /\ \A i \in 1..6 : s[i] \in Letters)
        base == RemoveFirstPRO(s)
        quoteCcy == SubSeq(base, IF Len(base) > 3 THEN Len(base) - 2 ELSE 1, Len(base))
    IN IF \/ StartsWith(s, <<"X", "A", "U">>) \/ StartsWith(s, <<"X", "A", "G">>)
          \/ Includes(s, <<"G", "O", "L", "D">>)
          \/ Includes(s, <<"S", "I", "L", "V", "E", "R">>)
       THEN 100 * 100
       ELSE IF \E idx \in eurIndices : Includes(s, idx)
       THEN 100 * RateOr(fxRates, "EURUSD", 100)
       ELSE IF \E idx \in gbpIndices : Includes(s, idx)
       THEN 100 * RateOr(fxRates, "GBPUSD", 100)
       ELSE IF isForex
       THEN 100000 * QuoteCcyToUSD(fxRates, quoteCcy)
       ELSE 100

\* instrumentMap.get(instId) || '' on a map from instrument id to
\* [symbol, type]
SymbolOf(instruments, instId) ==
  IF instId \in DOMAIN instruments THEN instruments[instId].symbol ELSE NoSymbol

\* instrumentFullMap.get(instId)?.type || ''
TypeOf(instruments, instId) ==
  IF instId \in DOMAIN instruments THEN instruments[instId].type ELSE ""

\* The rate names getFXRates fills
RateNames ==
  {"EURUSD", "GBPUSD", "AUDUSD", "NZDUSD", "USDCAD", "USDCHF", "USDJPY",
   "CADUSD", "CHFUSD", "JPYUSD"}

\* The table getFXRates starts from, in units of 0.01
DefaultRates ==
  [p \in RateNames |-> IF p = "USDJPY" THEN 10000 ELSE IF p = "JPYUSD" THEN 1 ELSE 100]

\* getFXRates: the defaults, a live mid quote where one was obtained (quotes
\* maps a rate name to its mid price in units of 0.01), and the derived
\* aliases; when the instruments request fails the defaults are returned
getFXRates(quotes, reachable) ==
  IF ~reachable THEN DefaultRates
  ELSE LET live == [p \in RateNames |->
                      IF p \in DOMAIN quotes /\ p \notin {"CADUSD", "CHFUSD", "JPYUSD"}
                      THEN quotes[p] ELSE DefaultRates[p]]
       IN [p \in RateNames |->
             IF p = "CADUSD" THEN (IF live["USDCAD"] > 0 THEN 10000 \div live["USDCAD"] ELSE 100)
             ELSE IF p = "CHFUSD" THEN (IF live["USDCHF"] > 0 THEN 10000 \div live["USDCHF"] ELSE 100)
             ELSE IF p = "JPYUSD" THEN (IF live["USDJPY"] > 0 THEN 10000 \div live["USDJPY"] ELSE 1)
             ELSE live[p]]

\* ------------------------------------------------------------------------
\* Raw orders and groupPositionOrders (tradelocker.js)
\* ------------------------------------------------------------------------

\* One raw order of ordersHistory, by the documented positions:
\* [0] id, [1] tradableInstrumentId, [3] qty, [4] side, [5] type, [6] status,
\* [8] avgPrice, [9] price, [11] validity, [13] createdDate, [15] isOpen,
\* [16] positionId, [17] stopLoss, [19] takeProfit.
RawOrder(id, inst, qty, side, type, status, avgPrice, price, validity, created, isOpen, pos, sl, tp) ==
  [id |-> id, tradableInstrumentId |-> inst, qty |-> qty, side |-> side, type |-> type,
   status |-> status, avgPrice |-> avgPrice, price |-> price, validity |-> validity,
   createdDate |-> created, isOpen |-> isOpen, positionId |-> pos,
   stopLoss |-> sl, takeProfit |-> tp]

\* String(order['16'] ?? order[16] ?? '').trim()
PosIdOf(order) == Trim(order.positionId)

\* status === 'filled' && isOpen === 'true'
IsOpeningFill(o) == ToLower(o.status) = "filled" /\ ToLower(o.isOpen) = "true"

\* Mutant: any closing order counts, filled or not
IsClosingFill_AnyStatus(o) == ToLower(o.isOpen) = "false"

\* status === 'filled' && isOpen === 'false'
IsClosingFill(o) == ToLower(o.status) = "filled" /\ ToLower(o.isOpen) = "false"

\* Number(get(o, 13) || 0)
CreatedMs(o) == OrZero(o.createdDate)

\* Mutant: the time in force of a bracket is not looked at
IsBracket_AnyValidity(o, oppositeSide) ==
  /\ ToLower(o.side) = oppositeSide
  /\ ToLower(o.status) \in {"cancelled", "pending", ""}

\* The bracket orders of a group: opposite side, cancelled / pending / empty
\* status, time in force GTC
IsBracket(o, oppositeSide) ==
  /\ ToLower(o.side) = oppositeSide
  /\ ToLower(o.status) \in {"cancelled", "pending", ""}
  /\ ToUpper(o.validity) = "GTC"

\* The for-loop over bracketOrders: the first bracket of the wanted type with
\* a non-zero price fills the field, only when the primary field was null
BracketFallback(primary, brackets, wantedType) ==
  LET Hit(b) == ToLower(b.type) = wantedType /\ OrNull(OrZero(b.price)) # NullNum
      hits == SelectSeq(brackets, Hit)
  IN IF primary # NullNum THEN primary
     ELSE IF hits = <<>> THEN NullNum
     ELSE OrZero(hits[1].price)

\* The position built from one group (lines 953-1061); defined for a group
\* that has an opening and a closing fill
BuildPosition(positionId, posOrders, instrumentMap, fxRates, instrumentFullMap) ==
  LET openingFills == SelectSeq(posOrders, IsOpeningFill)
      closingFills == SelectSeq(posOrders, IsClosingFill)
      earliest == ArrayOf([i \in 1..Len(openingFills) |-> CreatedMs(openingFills[i])])
      latest == ArrayOf([i \in 1..Len(closingFills) |-> 0 - CreatedMs(closingFills[i])])
      openOrder == StableSort(openingFills, earliest)[1]
      closeOrder == StableSort(closingFills, latest)[1]
      side == ToLower(openOrder.side)
      qty == OrZero(openOrder.qty)
      entryPrice == OrZero(openOrder.avgPrice)
      exitPrice == OrZero(closeOrder.avgPrice)
      instId == openOrder.tradableInstrumentId
      symbol == IF instId \in DOMAIN instrumentMap THEN instrumentMap[instId] ELSE NoSymbol
      instType == IF instId \in DOMAIN instrumentFullMap
                  THEN instrumentFullMap[instId].type ELSE ""
      oppositeSide == IF side = "sell" THEN "buy" ELSE "sell"
      IsBr(o) == IsBracket(o, oppositeSide)
      bracketOrders == SelectSeq(posOrders, IsBr)
      stopLoss == BracketFallback(OrNull(OrZero(openOrder.stopLoss)), bracketOrders, "stop")
      takeProfit == BracketFallback(OrNull(OrZero(openOrder.takeProfit)), bracketOrders, "limit")
      priceDiff == IF side = "sell" THEN entryPrice - exitPrice ELSE exitPrice - entryPrice
      grossPnl == IF entryPrice > 0 /\ exitPrice > 0 /\ qty > 0
                  THEN priceDiff * qty * getContractMultiplier(symbol, fxRates, instType)
                  ELSE 0
  IN [positionId |-> positionId,
      orderId |-> closeOrder.id,
      tradableInstrumentId |-> instId,
      side |-> side,
      orderType |-> ToLower(openOrder.type),
      qty |-> qty,
      openPrice |-> entryPrice,
      exitPrice |-> exitPrice,
      stopLoss |-> stopLoss,
      takeProfit |-> takeProfit,
      openTime |-> openOrder.createdDate,
      closeTime |-> closeOrder.createdDate,
      profit |-> Round2(grossPnl)]

\* !(openingFills.length === 0 || closingFills.length === 0)
HasRoundTrip(posOrders) ==
  /\ Len(SelectSeq(posOrders, IsOpeningFill)) # 0
  /\ Len(SelectSeq(posOrders, IsClosingFill)) # 0

\* Number(a.closeTime || 0)
CloseMs(pos) == OrZero(pos.closeTime)

\* Mutant: the orders without positionId form a group of their own
groupPositionOrders_BlankGroup(orders, instrumentMap, fxRates, instrumentFullMap) ==
  LET n == Len(orders)
      ids == ArrayOf([i \in 1..n |-> PosIdOf(orders[i])])
      first == {i \in 1..n : \A j \in 1..(i - 1) : ids[j] # ids[i]}
      Group(i) == LET In(o) == PosIdOf(o) = ids[i] IN SelectSeq(orders, In)
      complete == ArrayOf(SeqOfSet({i \in first : HasRoundTrip(Group(i))}))
      closedPositions ==
        ArrayOf([k \in 1..Len(complete) |->
                   BuildPosition(ids[complete[k]], Group(complete[k]),
                                 instrumentMap, fxRates, instrumentFullMap)])
  IN StableSort(closedPositions,
                ArrayOf([k \in 1..Len(closedPositions) |-> CloseMs(closedPositions[k])]))

\* groupPositionOrders(orders, instrumentMap, fxRates, instrumentFullMap):
\* groups in the order of first appearance of their positionId, one position
\* per complete group, sorted by exit time ascending
groupPositionOrders(orders, instrumentMap, fxRates, instrumentFullMap) ==
  LET n == Len(orders)
      ids == ArrayOf([i \in 1..n |-> PosIdOf(orders[i])])
      first == {i \in 1..n : ids[i] # "" /\ \A j \in 1..(i - 1) : ids[j] # ids[i]}
      Group(i) == LET In(o) == PosIdOf(o) = ids[i] IN SelectSeq(orders, In)
      complete == ArrayOf(SeqOfSet({i \in first : HasRoundTrip(Group(i))}))
      closedPositions ==
        ArrayOf([k \in 1..Len(complete) |->
                   BuildPosition(ids[complete[k]], Group(complete[k]),
                                 instrumentMap, fxRates, instrumentFullMap)])
  IN StableSort(closedPositions,
                ArrayOf([k \in 1..Len(closedPositions) |-> CloseMs(closedPositions[k])]))

\* ------------------------------------------------------------------------
\* normalizeTradeLockerTrade (named-field branch) and
\* transformTradeLockerTrade, applied to a grouped position
\* ------------------------------------------------------------------------

\* The named-field branch on a position object: profit, commission and swap
\* (the position carries commission = swap = 0), netProfit, prices, volume,
\* side and the two timestamps
NormalizePosition(position) ==
  [ticket |-> position.orderId,
   positionId |-> position.positionId,
   volume |-> position.qty,
   type |-> ToLower(position.side),
   status |-> "filled",
   openPrice |-> position.openPrice,
   closePrice |-> position.exitPrice,
   stopPrice |-> OrZero(position.stopLoss),
   takeProfit |-> OrZero(position.takeProfit),
   profit |-> position.profit,
   commission |-> 0,
   swap |-> 0,
   netProfit |-> position.profit - 0 - 0,
   openTime |-> OrNull(OrZero(position.openTime)),
   closeTime |-> OrNull(OrZero(position.closeTime))]

\* Mutant: the pnl is always the bare price difference times the volume
TradePnl_PriceDiff(normalized) ==
  IF normalized.type = "sell"
  THEN (normalized.openPrice - normalized.closePrice) * normalized.volume * 100
  ELSE (normalized.closePrice - normalized.openPrice) * normalized.volume * 100

\* let pnl = parseFloat(netProfit) || parseFloat(profit) || 0, then the
\* price-difference fallback for a filled trade whose pnl is 0; micro-dollars
TradePnl(normalized) ==
  LET pnl == IF normalized.netProfit # 0 THEN normalized.netProfit * 10000
             ELSE normalized.profit * 10000
      isFilled == normalized.status \in {"filled", "closed", "executed", "complete"}
      raw == IF normalized.type = "buy"
             THEN (normalized.closePrice - normalized.openPrice) * normalized.volume * 100
             ELSE IF normalized.type = "sell"
             THEN (normalized.openPrice - normalized.closePrice) * normalized.volume * 100
             ELSE pnl
  IN IF /\ pnl = 0 /\ isFilled
        /\ normalized.openPrice > 0 /\ normalized.closePrice > 0 /\ normalized.volume > 0
     THEN raw - 0 + 0
     ELSE pnl

\* The close date: closeTime when it is a valid timestamp, else openTime,
\* else the current time
CloseDate(normalized, now) ==
  IF normalized.closeTime # NullNum /\ normalized.closeTime > 0 THEN normalized.closeTime
  ELSE IF normalized.openTime # NullNum /\ normalized.openTime > 0 THEN normalized.openTime
  ELSE now

\* closeBalance = openBalance + pnl, micro-dollars
CloseBalance(openBalance, pnl) == openBalance + pnl

\* transformTradeLockerTrade(tradeData, openBalance, settings, symbol): the
\* stored record; openBalance in micro-dollars, stored amounts in cents
transformTradeLockerTrade(position, openBalance, now) ==
  LET normalized == NormalizePosition(position)
      pnl == TradePnl(normalized)
  IN [date |-> CloseDate(normalized, now),
      pnl |-> Round2(pnl),
      openBalance |-> Round2(openBalance),
      closeBalance |-> Round2(CloseBalance(openBalance, pnl)),
      stopLoss |-> OrNull(normalized.stopPrice),
      takeProfit |-> OrNull(normalized.takeProfit),
      tradelockerTradeId |-> normalized.ticket]

\* ------------------------------------------------------------------------
\* The persistent store: Trade rows, Settings, TradeLockerAccount
\* ------------------------------------------------------------------------

INITIAL_LIMIT == 100
DefaultStartingBalance == 1000

\* settings?.startingBalance || 1000, in micro-dollars
StartingBalanceOf(settings) ==
  IF settings.present /\ settings.startingBalance # 0
  THEN settings.startingBalance
  ELSE DefaultStartingBalance * 1000000

\* Mutant: the rows of every user are read
TradesOf_AnyUser(table, userId) == table

\* where: { userId: req.userId } on the Trade table
TradesOf(table, userId) ==
  LET Own(t) == t.userId = userId IN SelectSeq(table, Own)

\* Mutant: no row is taken to carry an external id
BrokerTrades_None(rows) == <<>>

\* where: { tradelockerTradeId: { not: null } }
BrokerTrades(rows) ==
  LET Synced(t) == t.tradelockerTradeId # "" IN SelectSeq(rows, Synced)

\* new Set(existingTradeIdRows.map(t => t.tradelockerTradeId))
existingTradeLockerIds(rows) ==
  {t.tradelockerTradeId : t \in Range(BrokerTrades(rows))}

\* findFirst({ orderBy: { date: 'desc' } }) over the broker trades: the
\* latest date, NullNum when there is none
latestSyncedTrade(rows) ==
  LET dates == {t.date : t \in Range(BrokerTrades(rows))}
  IN IF dates = {} THEN NullNum ELSE CHOOSE d \in dates : \A e \in dates : e <= d

\* syncStartTime
syncStartTime(mode, rows) ==
  IF mode = "refresh" /\ latestSyncedTrade(rows) # NullNum
  THEN latestSyncedTrade(rows)
  ELSE NullNum

\* Mutant: the table has no unique index
UniqueConflict_Never(rows, tradeData) == FALSE

\* Mutant: the unique index is on tradelockerTradeId alone
UniqueConflict_AnyUser(rows, tradeData) ==
  /\ tradeData.tradelockerTradeId # ""
  /\ \E t \in Range(BrokerTrades(rows)) :
       t.tradelockerTradeId = tradeData.tradelockerTradeId

\* The Trade_userId_tradelockerTradeId_key unique index, over the rows WHERE
\* tradelockerTradeId IS NOT NULL
UniqueConflict(rows, tradeData) ==
  /\ tradeData.tradelockerTradeId # ""
  /\ \E t \in Range(BrokerTrades(rows)) :
       /\ t.userId = tradeData.userId
       /\ t.tradelockerTradeId = tradeData.tradelockerTradeId

\* Mutant: a create whose key exists is answered as a success
TradeCreate_CountRejected(rows, tradeData, storeError) ==
  IF storeError THEN [ok |-> FALSE, rows |-> rows]
  ELSE IF UniqueConflict(rows, tradeData) THEN [ok |-> TRUE, rows |-> rows]
  ELSE [ok |-> TRUE, rows |-> Append(rows, tradeData)]

\* Mutant: a create whose key exists overwrites the stored row
TradeCreate_Upsert(rows, tradeData, storeError) ==
  IF storeError THEN [ok |-> FALSE, rows |-> rows]
  ELSE IF UniqueConflict(rows, tradeData)
  THEN [ok |-> FALSE,
        rows |-> [i \in 1..Len(rows) |->
                    IF /\ rows[i].userId = tradeData.userId
                       /\ rows[i].tradelockerTradeId = tradeData.tradelockerTradeId
                    THEN tradeData ELSE rows[i]]]
  ELSE [ok |-> TRUE, rows |-> Append(rows, tradeData)]

\* prisma.trade.create({ data }): rejected by the unique index or by any
\* other store error, else the row is added
TradeCreate(rows, tradeData, storeError) ==
  IF storeError \/ UniqueConflict(rows, tradeData)
  THEN [ok |-> FALSE, rows |-> rows]
  ELSE [ok |-> TRUE, rows |-> Append(rows, tradeData)]

\* ------------------------------------------------------------------------
\* The broker side
\* ------------------------------------------------------------------------

\* GET ordersHistory?startTime=: the remote service either applies the
\* startTime parameter to the orders or ignores it and returns the full
\* history (settings.js, lines 445-448)
ordersHistory(orders, startTime, honoured) ==
  LET Since(o) == CreatedMs(o) >= startTime
  IN IF honoured /\ startTime # NullNum THEN SelectSeq(orders, Since) ELSE orders

\* How the broker answers one history request: with the rows, with an empty
\* list, with 429, with another error status, or not at all (fetch throws)
ResponseKinds == {"ok", "empty", "429", "500", "throw"}

\* The two URLs getClosedPositions tries, in order
Endpoints == <<"ordersHistory", "positionsHistory">>

\* The broker answers every request with its rows
Responsive == [e \in 1..2 |-> [first |-> "ok", retry |-> "ok"]]

\* Mutant: a rate-limited request is retried until the third answer
TryEndpoint_RetryTwice(url, response, rows) ==
  IF response.first = "429"
  THEN [done |-> response.retry \in {"ok", "empty"},
        trades |-> IF response.retry = "ok" THEN rows ELSE <<>>,
        requests |-> <<url, url, url>>,
        responses |-> <<response.first, response.first, response.retry>>,
        waits |-> 2]
  ELSE [done |-> response.first \in {"ok", "empty"},
        trades |-> IF response.first = "ok" THEN rows ELSE <<>>,
        requests |-> <<url>>,
        responses |-> <<response.first>>,
        waits |-> 0]

\* One iteration of the loop over the endpoints: the request, on 429 one
\* wait of 2 s and one retry; done when a response was ok (its list is
\* returned, empty or not), else the loop goes on to the next URL
TryEndpoint(url, response, rows) ==
  IF response.first = "429"
  THEN [done |-> response.retry \in {"ok", "empty"},
        trades |-> IF response.retry = "ok" THEN rows ELSE <<>>,
        requests |-> <<url, url>>,
        responses |-> <<response.first, response.retry>>,
        waits |-> 1]
  ELSE [done |-> response.first \in {"ok", "empty"},
        trades |-> IF response.first = "ok" THEN rows ELSE <<>>,
        requests |-> <<url>>,
        responses |-> <<response.first>>,
        waits |-> 0]

\* getClosedPositions: the first URL that answers ok decides; [] when none
\* does.  net[e] is how the broker answers the requests to Endpoints[e], rows
\* what it holds for the requested window.
getClosedPositions(net, rows) ==
  LET e1 == TryEndpoint(Endpoints[1], net[1], rows)
      e2 == TryEndpoint(Endpoints[2], net[2], rows)
  IN IF e1.done THEN e1
     ELSE [done |-> e2.done,
           trades |-> IF e2.done THEN e2.trades ELSE <<>>,
           requests |-> e1.requests \o e2.requests,
           responses |-> e1.responses \o e2.responses,
           waits |-> e1.waits + e2.waits]

\* ------------------------------------------------------------------------
\* The access token (settings.js, getValidAccessToken)
\* ------------------------------------------------------------------------

\* expiresIn of an issued token, in clock ticks
TokenLifetime == 2

\* The stored password as encrypt() wrote it, and one decrypt() cannot read
EncryptedPassword == "iv:ciphertext"
CorruptPassword == "corrupt"

\* decrypt(text) succeeds
Decryptable(text) == text = EncryptedPassword

\* The messages of the two fatal outcomes
ReconnectError ==
  "Stored credentials are invalid. Please disconnect and reconnect your TradeLocker account."
AuthError == "Failed to authenticate with TradeLocker: Authentication failed: 401"

\* The auth service answers every request; login returns a new refresh token
AuthUp == [refresh |-> "ok", login |-> "ok", newRefreshToken |-> TRUE]

\* Mutant: every update of the account row also stamps lastSyncedAt
AccountUpdate_Stamped(row, data) ==
  [f \in DOMAIN row |->
     IF f \in DOMAIN data THEN data[f]
     ELSE IF f = "lastSyncedAt" /\ DOMAIN data # {} THEN 0
     ELSE row[f]]

\* prisma.tradeLockerAccount.update({ where: { userId }, data }): data maps
\* the written fields to their values
AccountUpdate(row, data) ==
  [f \in DOMAIN row |-> IF f \in DOMAIN data THEN data[f] ELSE row[f]]

\* Mutant: a stored refresh token is not tried, the password is used at once
getValidAccessToken_NoRefresh(account, now, auth) ==
  IF account.accessToken # NullNum /\ account.tokenExpiresAt # NullNum
     /\ account.tokenExpiresAt > now
  THEN [ok |-> TRUE, accessToken |-> account.accessToken, calls |-> <<>>,
        data |-> <<>>, error |-> ""]
  ELSE IF ~Decryptable(account.password)
  THEN [ok |-> FALSE, accessToken |-> NullNum, calls |-> <<>>, data |-> <<>>,
        error |-> ReconnectError]
  ELSE IF auth.login # "ok"
  THEN [ok |-> FALSE, accessToken |-> NullNum, calls |-> <<"auth">>, data |-> <<>>,
        error |-> AuthError]
  ELSE [ok |-> TRUE, accessToken |-> now, calls |-> <<"auth">>,
        data |-> [accessToken |-> now,
                  refreshToken |-> IF auth.newRefreshToken THEN now ELSE account.refreshToken,
                  tokenExpiresAt |-> now + TokenLifetime],
        error |-> ""]

\* getValidAccessToken(account) at time now; account is the row as the
\* handler read it.  A token is the time it was issued at, NullNum when the
\* field is null.  calls lists the calls to refreshAccessToken ("refresh") and
\* authenticateTradeLocker ("auth"), data is what is written to the account
\* row (<<>> when nothing is).
getValidAccessToken(account, now, auth) ==
  IF account.accessToken # NullNum /\ account.tokenExpiresAt # NullNum
     /\ account.tokenExpiresAt > now
  THEN [ok |-> TRUE, accessToken |-> account.accessToken, calls |-> <<>>,
        data |-> <<>>, error |-> ""]
  ELSE IF account.refreshToken # NullNum /\ auth.refresh = "ok"
  THEN [ok |-> TRUE, accessToken |-> now, calls |-> <<"refresh">>,
        data |-> [accessToken |-> now, tokenExpiresAt |-> now + TokenLifetime],
        error |-> ""]
  ELSE LET tried == IF account.refreshToken # NullNum THEN <<"refresh">> ELSE <<>>
       IN IF ~Decryptable(account.password)
          THEN [ok |-> FALSE, accessToken |-> NullNum, calls |-> tried, data |-> <<>>,
                error |-> ReconnectError]
          ELSE IF auth.login # "ok"
          THEN [ok |-> FALSE, accessToken |-> NullNum, calls |-> tried \o <<"auth">>,
                data |-> <<>>, error |-> AuthError]
          ELSE [ok |-> TRUE, accessToken |-> now, calls |-> tried \o <<"auth">>,
                data |-> [accessToken |-> now,
                          refreshToken |-> IF auth.newRefreshToken THEN now
                                           ELSE account.refreshToken,
                          tokenExpiresAt |-> now + TokenLifetime],
                error |-> ""]

\* ------------------------------------------------------------------------
\* POST /sync: window, cap, dedup, balance sequencing, persist
\* ------------------------------------------------------------------------

\* Mutant: the boundary position (exit time = T) is dropped
InWindow_Strict(pos, mode, startTime) ==
  IF mode = "refresh" /\ startTime # NullNum
  THEN CloseMs(pos) > startTime
  ELSE TRUE

\* The client-side time filter of refresh mode
InWindow(pos, mode, startTime) ==
  IF mode = "refresh" /\ startTime # NullNum
  THEN CloseMs(pos) >= startTime
  ELSE TRUE

\* shouldCap = mode === 'initial' || isFirstSync
shouldCap(mode, existing) == mode = "initial" \/ Cardinality(existing) = 0

\* Mutant: only the positionId is looked up
AlreadySynced_PositionIdOnly(position, existing) ==
  Trim(position.positionId) # "" /\ Trim(position.positionId) \in existing

\* The two skip tests of the dedup loop
AlreadySynced(position, existing) ==
  LET positionId == Trim(position.positionId)
      orderId == Trim(position.orderId)
  IN \/ (positionId # "" /\ positionId \in existing)
     \/ (orderId # "" /\ orderId \in existing)

\* Mutant: slice(0, INITIAL_LIMIT) keeps the oldest positions
CapPositions_Oldest(closedPositions, mode, existing) ==
  IF shouldCap(mode, existing) /\ Len(closedPositions) > INITIAL_LIMIT
  THEN SubSeq(closedPositions, 1, INITIAL_LIMIT)
  ELSE closedPositions

\* Mutant: the positions already persisted are removed before the cap
CapPositions_AfterDedup(closedPositions, mode, existing) ==
  LET Fresh(pos) == ~ AlreadySynced(pos, existing)
  IN IF shouldCap(mode, existing)
     THEN SliceLast(SelectSeq(closedPositions, Fresh), INITIAL_LIMIT)
     ELSE closedPositions

\* sortedPositions
CapPositions(closedPositions, mode, existing) ==
  IF shouldCap(mode, existing)
  THEN SliceLast(closedPositions, INITIAL_LIMIT)
  ELSE closedPositions

\* Mutant: the external id is not stored on the record
TradeLockerId_Unset(position) == ""

\* tradeLockerId = positionId || orderId || null
TradeLockerId(position) ==
  IF Trim(position.positionId) # "" THEN Trim(position.positionId)
  ELSE Trim(position.orderId)

\* Mutant: the running balance is not carried to the next trade
NextBalance_Stale(currentBalance, transformedTrade) == currentBalance

\* currentBalance = transformedTrade.closeBalance, back in micro-dollars
NextBalance(currentBalance, transformedTrade) == transformedTrade.closeBalance * 10000

\* One iteration of the dedup / transform loop on the loop state w: a
\* position already synced is skipped, any other is transformed at the
\* running balance and queued
DedupStep(w, position, existing, now) ==
  LET transformed ==
        [transformTradeLockerTrade(position, w.currentBalance, now)
           EXCEPT !.tradelockerTradeId = TradeLockerId(position)]
  IN IF AlreadySynced(position, existing)
     THEN [w EXCEPT !.skipped = Append(@, position.positionId)]
     ELSE [currentBalance |-> NextBalance(w.currentBalance, transformed),
           tradesToCreate |-> Append(w.tradesToCreate, transformed),
           newPositions |-> Append(w.newPositions, position),
           skipped |-> w.skipped]

RECURSIVE DedupRange(_, _, _, _, _, _)
\* The iterations lo .. hi of the loop, in order, from the loop state w (the
\* range is walked as its first half, ending in the state v, followed by its
\* second half from v)
DedupRange(sortedPositions, existing, now, lo, hi, w) ==
  IF lo > hi THEN w
  ELSE IF lo = hi THEN DedupStep(w, sortedPositions[lo], existing, now)
  ELSE LET mid == (lo + hi) \div 2
       IN CHOOSE r \in {DedupRange(sortedPositions, existing, now, mid + 1, hi, v) :
                          v \in {DedupRange(sortedPositions, existing, now, lo, mid, w)}} : TRUE

\* The dedup / transform loop: the trades to create (with the positions they
\* come from), the skipped positions and the running balance
DedupLoop(sortedPositions, existing, startBalance, now) ==
  DedupRange(sortedPositions, existing, now, 1, Len(sortedPositions),
             [currentBalance |-> startBalance, tradesToCreate |-> <<>>,
              newPositions |-> <<>>, skipped |-> <<>>])

\* One iteration of the insert loop: the create is tried, a rejected one is
\* swallowed; created and failed hold the indices of tradesToCreate
InsertStep(w, tradesToCreate, k, failing) ==
  LET r == TradeCreate(w.rows, tradesToCreate[k], k \in failing)
  IN IF r.ok
     THEN [rows |-> r.rows, created |-> w.created \cup {k}, failed |-> w.failed]
     ELSE [w EXCEPT !.failed = @ \cup {k}]

RECURSIVE InsertRange(_, _, _, _, _)
\* The iterations lo .. hi of the insert loop, in order, from the state w
InsertRange(tradesToCreate, failing, lo, hi, w) ==
  IF lo > hi THEN w
  ELSE IF lo = hi THEN InsertStep(w, tradesToCreate, lo, failing)
  ELSE LET mid == (lo + hi) \div 2
       IN CHOOSE r \in {InsertRange(tradesToCreate, failing, mid + 1, hi, v) :
                          v \in {InsertRange(tradesToCreate, failing, lo, mid, w)}} : TRUE

\* The insert loop over all of tradesToCreate
InsertLoop(rows, tradesToCreate, failing) ==
  InsertRange(tradesToCreate, failing, 1, Len(tradesToCreate),
              [rows |-> rows, created |-> {}, failed |-> {}])

\* Everything a run computes before it writes: what the handler logs and
\* returns (window, cap, skipped, trades to create)
SyncPlan(rows, userSettings, brokerOrders, mode, honoured, net, instrumentMap, fxRates, instrumentFullMap, now) ==
  LET existing == existingTradeLockerIds(rows)
      startTime == syncStartTime(mode, rows)
      fetched == getClosedPositions(net, ordersHistory(brokerOrders, startTime, honoured))
      rawOrders == fetched.trades
      allClosedPositions == groupPositionOrders(rawOrders, instrumentMap, fxRates, instrumentFullMap)
      Keep(pos) == InWindow(pos, mode, startTime)
      closedPositions == SelectSeq(allClosedPositions, Keep)
      sortedPositions == CapPositions(closedPositions, mode, existing)
      startBalance == StartingBalanceOf(userSettings)
      loop == DedupLoop(sortedPositions, existing, startBalance, now)
  IN [ran |-> TRUE,
      mode |-> mode,
      existing |-> existing,
      startTime |-> startTime,
      requests |-> fetched.requests,
      responses |-> fetched.responses,
      waits |-> fetched.waits,
      rawOrders |-> rawOrders,
      allClosedPositions |-> allClosedPositions,
      closedPositions |-> closedPositions,
      sortedPositions |-> sortedPositions,
      startBalance |-> startBalance,
      tradesToCreate |-> loop.tradesToCreate,
      newPositions |-> loop.newPositions,
      skipped |-> loop.skipped]

\* ------------------------------------------------------------------------
\* The scenario: instruments, FX rates, the broker's order history
\* ------------------------------------------------------------------------

InstrumentMap == [i \in {"i1", "i2"} |-> IF i = "i1" THEN NAS100 ELSE XAUUSD]

InstrumentFullMap ==
  [i \in {"i1", "i2"} |->
     IF i = "i1" THEN [symbol |-> NAS100, type |-> "EQUITY_CFD"]
     ELSE [symbol |-> XAUUSD, type |-> ""]]

FxRates == [p \in {"EURUSD", "GBPUSD"} |-> IF p = "EURUSD" THEN 108 ELSE 125]

\* The orders the broker reports, in the order they happen:
\*   A  buy 1.00 NAS100 100.00 -> 101.50, closed at 2          (+1.50)
\*   B  sell 0.50 NAS100 200.00 -> 201.00, closed at 3, with a
\*      cancelled GTC stop bracket                            (-0.50)
\*   C  buy 2.00 XAUUSD 50.00 -> 50.01, closed at 3           (+2.00)
\*   E  an opening fill without a close
\*   an order without positionId
\*   F  buy 1.00 NAS100 90.00 -> 90.10, closed at 4           (+0.10)
\*   D  buy 1.00 NAS100 80.00 -> 80.25, the closing fill without a
\*      creation time                                         (+0.25)
OrderHistory ==
  << RawOrder("1", "i1", 100, "buy", "market", "Filled", 10000, 0, "IOC", 1, "true", "A", NullNum, NullNum),
     RawOrder("2", "i1", 100, "sell", "market", "Filled", 10150, 0, "IOC", 2, "false", " A", NullNum, NullNum),
     RawOrder("3", "i1", 50, "sell", "market", "Filled", 20000, 0, "IOC", 2, "true", "B", NullNum, 19000),
     RawOrder("4", "i1", 50, "buy", "stop", "Cancelled", 0, 20500, "GTC", 2, "false", "B", NullNum, NullNum),
     RawOrder("5", "i1", 50, "buy", "market", "Filled", 20100, 0, "IOC", 3, "false", "B ", NullNum, NullNum),
     RawOrder("6", "i2", 200, "Buy", "market", "FILLED", 5000, 0, "IOC", 3, "True", "C", 4900, NullNum),
     RawOrder("7", "i2", 200, "sell", "market", "Filled", 5001, 0, "IOC", 3, "false", "C", NullNum, NullNum),
     RawOrder("8", "i1", 100, "buy", "market", "Filled", 30000, 0, "IOC", 4, "true", "E", NullNum, NullNum),
     RawOrder("9", "i1", 100, "buy", "market", "Filled", 30000, 0, "IOC", 4, "true", " ", NullNum, NullNum),
     RawOrder("10", "i1", 100, "buy", "market", "Filled", 9000, 0, "IOC", 4, "true", "F", NullNum, NullNum),
     RawOrder("11", "i1", 100, "sell", "market", "Filled", 9010, 0, "IOC", 4, "false", "F", NullNum, NullNum),
     RawOrder("12", "i1", 100, "buy", "market", "Filled", 8000, 0, "IOC", 5, "true", "D", NullNum, NullNum),
     RawOrder("13", "i1", 100, "sell", "market", "Filled", 8025, 0, "IOC", NullNum, "false", "D", NullNum, NullNum) >>

\* The length of OrderHistory after each instant 1 .. 5 of the broker's time
OrderBatches == {1, 4, 7, 11, 13}

\* A stored trade row of the user u1
TradeRow(id, date, pnl, openBalance) ==
  [userId |-> "u1", date |-> date, pnl |-> pnl, openBalance |-> openBalance,
   closeBalance |-> openBalance + pnl,
   stopLoss |-> NullNum, takeProfit |-> NullNum, tradelockerTradeId |-> id]

\* Ledgers the account can start with: empty; one record of position A
\* imported when the closing order id was the key; one manually entered trade
EmptyLedger == <<>>
LegacyLedger == << TradeRow("2", 2, 150, 100000) >>
ManualLedger == << TradeRow("", 9, 1000, 100000) >>

NoSettings == [present |-> FALSE, startingBalance |-> 0]
UserSettings == [present |-> TRUE, startingBalance |-> 500000000]

\* getValidAccessToken was not called
NoTokenCall ==
  [ok |-> FALSE, accessToken |-> NullNum, calls |-> <<>>, data |-> <<>>, error |-> ""]

\* The summary of a run before any run has happened
NoRun ==
  [ran |-> FALSE, mode |-> "", existing |-> {}, startTime |-> NullNum,
   requests |-> <<>>, responses |-> <<>>, waits |-> 0, rawOrders |-> <<>>,
   allClosedPositions |-> <<>>, closedPositions |-> <<>>, sortedPositions |-> <<>>,
   startBalance |-> 0, tradesToCreate |-> <<>>, newPositions |-> <<>>, skipped |-> <<>>,
   created |-> {}, failed |-> {}, tradesBefore |-> <<>>, lastSyncedBefore |-> NullNum,
   status |-> 0, error |-> "", token |-> NoTokenCall, accountBefore |-> <<>>,
   now |-> NullNum, auth |-> <<>>]

\* Mutant: a request that ended before the fetch is answered as completed
Failure_Completed(status, error, token) ==
  [NoRun EXCEPT !.status = 200, !.error = error, !.token = token]

\* The response of a request that ended before the fetch, with what
\* getValidAccessToken did
Failure(status, error, token) ==
  [NoRun EXCEPT !.status = status, !.error = error, !.token = token]

\* A TradeLockerAccount row: connected, with a token valid until expiresAt
\* (NullNum: no token stored), a refresh token and the encrypted password
AccountRow(accessToken, expiresAt, refreshToken, password) ==
  [isConnected |-> TRUE, accessToken |-> accessToken, tokenExpiresAt |-> expiresAt,
   refreshToken |-> refreshToken, password |-> password, lastSyncedAt |-> NullNum]

\* The account as POST /connect left it, its token valid during every run
\* of the model
ConnectedAccount ==
  AccountRow(1, InitialClock + MaxRuns + TokenLifetime, 1, EncryptedPassword)

\* No call of getContractMultiplier under study
NoCalc == [instId |-> "", instruments |-> <<>>, fxRates |-> <<>>, multiplier |-> NullNum]

\* The requests that can be in flight at the same time
Requests == {"r1", "r2"}

\* A request slot before its request arrives
Idle ==
  [pc |-> "idle", userId |-> "", mode |-> "", begin |-> <<>>, account |-> <<>>,
   token |-> NoTokenCall, storedAtToken |-> <<>>, writtenAtToken |-> <<>>,
   tokenAt |-> NullNum, plan |-> NoRun, planAt |-> NullNum, honoured |-> FALSE,
   net |-> <<>>, k |-> 0, created |-> {}, failed |-> {}, storeErrors |-> {},
   status |-> 0, error |-> ""]

\* No request in flight
NoRequests == [r \in Requests |-> Idle]

\* The second user where only u1 is modelled: connected, nothing at its broker
NoPeer == [settings |-> [present |-> FALSE, startingBalance |-> 0],
           account |-> ConnectedAccount, broker |-> <<>>]

\* The local journal where the server is modelled: the initial React state
NoJournal == [trades |-> <<>>, startingBalance |-> 100000, op |-> "none", issued |-> 0]

\* ------------------------------------------------------------------------
\* State
\* ------------------------------------------------------------------------
VARIABLES
  trades,     \* the Trade table, in insertion order
  settings,   \* the Settings row of the user u1
  account,    \* the TradeLockerAccount row of u1: isConnected, the token fields,
              \* the encrypted password, lastSyncedAt
  broker,     \* the orders the broker's history holds
  clock,      \* the current time
  last,       \* what the last completed run computed, logged, returned and
              \* wrote; created and failed hold positionIds
  prev,       \* the same for the run before it
  calc,       \* one call of a pure function under study (getContractMultiplier,
              \* normalizeTradeLockerTrade, groupPositionOrders): its
              \* arguments and result
  peer,       \* the Settings row, the TradeLockerAccount row and the broker
              \* history of a second user, u2
  inflight,   \* the POST /sync requests being served: for each its position
              \* in the handler and what it has read and computed so far
  journal     \* the local journal of the browser app: the trades state (as
              \* written to localStorage), settings.startingBalance, the
              \* operation made last and the number of ids issued

vars == <<trades, settings, account, broker, clock, last, prev, calc, peer, inflight,
         journal>>

Init ==
  /\ \E start \in {<<EmptyLedger, 0>>, <<LegacyLedger, 4>>, <<ManualLedger, 0>>} :
       /\ trades = start[1]
       /\ broker = SubSeq(OrderHistory, 1, start[2])
  /\ settings \in {NoSettings, UserSettings}
  /\ account = ConnectedAccount
  /\ clock = InitialClock
  /\ last = NoRun
  /\ prev = NoRun
  /\ calc = NoCalc
  /\ peer = NoPeer
  /\ inflight = NoRequests
  /\ journal = NoJournal

\* The insert failures considered for a run of n inserts: every pattern up to
\* MaxFailing inserts, beyond that none, the first, the last or all
FailingSets(n) ==
  IF n <= MaxFailing THEN SUBSET (1..n) ELSE {{}, {1}, {n}, 1..n}

\* tradesToCreate.push({ ...transformedTrade, userId: req.userId, ... })
OwnedBy(tradesToCreate, userId) ==
  ArrayOf([k \in 1..Len(tradesToCreate) |-> [userId |-> userId] @@ tradesToCreate[k]])

\* What a request of the user computes from the fetch to the insert loop: the
\* queries read the user's rows of the Trade table, the trades to create
\* carry the user's id
UserPlan(table, userId, userSettings, brokerOrders, mode, honoured, net, now) ==
  LET plan == SyncPlan(TradesOf(table, userId), userSettings, brokerOrders, mode, honoured,
                       net, InstrumentMap, FxRates, InstrumentFullMap, now)
  IN [plan EXCEPT !.tradesToCreate = OwnedBy(@, userId)]

\* What one POST /sync request does up to the insert loop: 400 when the
\* account is not connected, 500 with the error's message when
\* getValidAccessToken throws, else the plan of the run
SyncRun(table, userId, userSettings, accountRow, brokerOrders, mode, honoured, net, auth, now) ==
  IF ~accountRow.isConnected
  THEN Failure(400, "TradeLocker account not connected", NoTokenCall)
  ELSE LET token == getValidAccessToken(accountRow, now, auth)
       IN IF ~token.ok
          THEN Failure(500, token.error, token)
          ELSE UserPlan(table, userId, userSettings, brokerOrders, mode, honoured, net, now)
                 @@ [status |-> 200, error |-> "", token |-> token]

\* One POST /sync request, from the account read to the response
Sync(mode, honoured, net, auth) ==
  /\ clock < InitialClock + MaxRuns
  /\ \E run \in {SyncRun(trades, "u1", settings, account, broker, mode, honoured, net,
                          auth, clock)} :
       \E failing \in FailingSets(Len(run.tradesToCreate)) :
         \E ins \in {InsertLoop(trades, run.tradesToCreate, failing)} :
           /\ trades' = ins.rows
           /\ account' =
                IF run.status = 200
                THEN [AccountUpdate(account, run.token.data) EXCEPT !.lastSyncedAt = clock + 1]
                ELSE AccountUpdate(account, run.token.data)
           /\ last' = [created |-> {run.newPositions[k].positionId : k \in ins.created},
                       failed |-> {run.newPositions[k].positionId : k \in ins.failed},
                       tradesBefore |-> trades,
                       lastSyncedBefore |-> account.lastSyncedAt,
                       accountBefore |-> account,
                       now |-> clock,
                       auth |-> auth] @@ run
  /\ clock' = clock + 1
  /\ prev' = last
  /\ UNCHANGED <<settings, broker, calc, peer, inflight, journal>>

\* Time passes on the broker side: the orders of the next instant of the
\* history (OrderBatches holds the length of the history after each instant)
\* are recorded
BrokerFill ==
  /\ Len(broker) < Len(OrderHistory)
  /\ \E n \in OrderBatches :
       /\ n > Len(broker)
       /\ \A m \in OrderBatches : m > Len(broker) => n <= m
       /\ broker' = SubSeq(OrderHistory, 1, n)
  /\ UNCHANGED <<trades, settings, account, clock, last, prev, calc, peer, inflight, journal>>

\* The runs of Spec: the broker answers every request and the stored token
\* is valid
Next ==
  \/ \E mode \in {"initial", "refresh"}, honoured \in BOOLEAN :
       Sync(mode, honoured, Responsive, AuthUp)
  \/ BrokerFill

Spec == Init /\ [][Next]_vars

\* ------------------------------------------------------------------------
\* Properties of sequential sync runs (Spec)
\* ------------------------------------------------------------------------

\* The positionIds of a sequence of positions
PositionIds(positions) == {positions[i].positionId : i \in 1..Len(positions)}

\* Two refresh runs, one after the other, that received the same orders from
\* the upstream fetch
TwoRefreshRuns ==
  /\ prev.ran /\ last.ran
  /\ prev.mode = "refresh" /\ last.mode = "refresh"
  /\ prev.rawOrders = last.rawOrders

\* The second run created no record for a positionId the first one persisted
\* or skipped
NoneCreatedAgain ==
  last.created \cap (prev.created \cup Range(prev.skipped)) = {}

\* The second run left the set of persisted external ids as it found it
IdsUnchanged == existingTradeLockerIds(trades) = last.existing

C2_NoDuplication ==
  \A i, j \in 1..Len(trades) :
    (i # j /\ trades[i].tradelockerTradeId # "")
      => trades[i].tradelockerTradeId # trades[j].tradelockerTradeId

\* C2 witness: two runs over the same positions, the first with a failed
\* insert, the second skipping what the first stored and storing the rest
C2_Witness ==
  /\ prev.ran /\ last.ran
  /\ prev.failed # {} /\ prev.created # {}
  /\ prev.created \subseteq Range(last.skipped)
  /\ last.created # {}
  /\ Cardinality(existingTradeLockerIds(trades)) >= 3

\* C3 as stated: a run in which an insert failed leaves lastSyncedAt at the
\* value it had before the run.
C3_CheckpointOnlyAfterAllInserts ==
  (last.ran /\ last.failed # {}) => account.lastSyncedAt = last.lastSyncedBefore

\* C4 as stated: every position whose insert failed in a run is attempted
\* again by the next refresh run that receives the same upstream orders.
C4_FailedRowsRetried ==
  (prev.ran /\ last.ran /\ last.mode = "refresh" /\ last.rawOrders = prev.rawOrders)
    => prev.failed \subseteq PositionIds(last.newPositions)

\* The lower bound of a refresh run, from the rows stored before the run: the
\* latest date of a row that carries an external id
LowerBoundBefore(run) ==
  LET dates == {run.tradesBefore[i].date :
                  i \in {j \in 1..Len(run.tradesBefore) :
                           run.tradesBefore[j].tradelockerTradeId # ""}}
  IN IF run.mode = "refresh" /\ dates # {}
     THEN CHOOSE d \in dates : \A e \in dates : e <= d
     ELSE NullNum

\* C6: in refresh mode the lower bound T is the date of the latest persisted
\* broker trade, nothing subtracted; a reconciled position with exit time < T
\* is not in the window, one with exit time >= T is; in initial mode or with
\* no broker trade persisted every reconciled position is in the window.
C6_WindowRefilter ==
  last.ran =>
    LET T == LowerBoundBefore(last)
        inWindow == PositionIds(last.closedPositions)
    IN /\ last.startTime = T
       /\ \A i \in 1..Len(last.allClosedPositions) :
            LET p == last.allClosedPositions[i]
            IN /\ (T # NullNum /\ p.closeTime # NullNum /\ p.closeTime < T)
                    => p.positionId \notin inWindow
               /\ (T # NullNum /\ p.closeTime # NullNum /\ p.closeTime >= T)
                    => p.positionId \in inWindow
               /\ T = NullNum => p.positionId \in inWindow

\* C6 witness: a refresh run whose fetch returned a position older than T,
\* one exactly at T and one later
C6_Witness ==
  /\ last.ran /\ last.mode = "refresh" /\ last.startTime # NullNum
  /\ \E i, j, k \in 1..Len(last.allClosedPositions) :
       /\ last.allClosedPositions[i].closeTime # NullNum
       /\ last.allClosedPositions[i].closeTime < last.startTime
       /\ last.allClosedPositions[j].closeTime = last.startTime
       /\ last.allClosedPositions[k].closeTime # NullNum
       /\ last.allClosedPositions[k].closeTime > last.startTime

\* The index in tradesToCreate of the record made from a position, 0 if none
RecordOf(run, positionId) ==
  LET hits == {k \in 1..Len(run.newPositions) : run.newPositions[k].positionId = positionId}
  IN IF hits = {} THEN 0 ELSE CHOOSE k \in hits : TRUE

\* C7: a position of the run whose positionId or closingOrderId is in the
\* external-id set read at the start is skipped and gets no record; any other
\* position gets exactly one record, whose external id is its positionId (its
\* closingOrderId when the positionId is empty).
C7_DedupByEitherKey ==
  last.ran =>
    /\ Len(last.skipped) + Len(last.tradesToCreate) = Len(last.sortedPositions)
    /\ \A i \in 1..Len(last.sortedPositions) :
         LET p == last.sortedPositions[i]
             k == RecordOf(last, p.positionId)
         IN IF p.positionId \in last.existing \/ p.orderId \in last.existing
            THEN p.positionId \in Range(last.skipped) /\ k = 0
            ELSE /\ p.positionId \notin Range(last.skipped)
                 /\ k # 0
                 /\ last.tradesToCreate[k].tradelockerTradeId =
                      (IF p.positionId # "" THEN p.positionId ELSE p.orderId)

\* C7 witness: a run that skipped a position known only by its closing order
\* id and made a record for another one
C7_Witness ==
  /\ last.ran
  /\ \E i, j \in 1..Len(last.sortedPositions) :
       /\ last.sortedPositions[i].positionId \notin last.existing
       /\ last.sortedPositions[i].orderId \in last.existing
       /\ last.sortedPositions[i].positionId \in Range(last.skipped)
       /\ RecordOf(last, last.sortedPositions[j].positionId) # 0

RECURSIVE SumPnl(_, _)
\* p1 + ... + pi of a sequence of records, in cents
SumPnl(records, i) == IF i = 0 THEN 0 ELSE SumPnl(records, i - 1) + records[i].pnl

\* C8: the records of one run are in exit-time order, and with the run's
\* starting balance B: closeBalance[i] = B + p1 + ... + pi, openBalance[1] = B,
\* openBalance[i] = closeBalance[i-1]; skipped positions leave the balance alone.
C8_BalanceSequencing ==
  last.ran =>
    LET B == Round2(last.startBalance)
        r == last.tradesToCreate
    IN \A i \in 1..Len(r) :
         /\ r[i].closeBalance = B + SumPnl(r, i)
         /\ r[i].openBalance = (IF i = 1 THEN B ELSE r[i - 1].closeBalance)
         /\ \A j \in 1..Len(r) :
              i < j => CloseMs(last.newPositions[i]) <= CloseMs(last.newPositions[j])

\* C8 witness: a run that made three records with a loss among them, after
\* skipping an older position
C8_Witness ==
  /\ last.ran
  /\ Len(last.tradesToCreate) >= 3
  /\ last.tradesToCreate[2].pnl # 0 /\ last.tradesToCreate[1].pnl # 0
  /\ \E i \in 1..Len(last.tradesToCreate) : last.tradesToCreate[i].pnl < 0
  /\ \E i \in 1..Len(last.sortedPositions) :
       /\ last.sortedPositions[i].positionId \in Range(last.skipped)
       /\ CloseMs(last.sortedPositions[i]) < CloseMs(last.newPositions[Len(last.newPositions)])

\* The balance of the ledger: the configured starting balance (the default
\* when none is configured) plus the P&L of every stored row, in cents
LedgerBalance(rows, userSettings) ==
  Round2(StartingBalanceOf(userSettings)) + SumPnl(rows, Len(rows))

\* C9 as stated: the first record a run produces opens at the balance of the
\* ledger as it was at the start of the run.
C9_RunningBalanceOrigin ==
  (last.ran /\ Len(last.tradesToCreate) > 0)
    => last.tradesToCreate[1].openBalance = LedgerBalance(last.tradesBefore, settings)

\* ------------------------------------------------------------------------
\* A long order history (SpecCap)
\* ------------------------------------------------------------------------

\* The largest history considered, in positions
MaxPositions == 150

\* The exit time of the i-th position of the long history: a permutation of
\* 1 .. MaxPositions, so that history order and exit order differ
ExitTimeOf(i) == ((i * 37) % (MaxPositions + 1))

\* n round trips of 1.00 NAS100, position i opened at 0 and closed at
\* ExitTimeOf(i) one tick down, flat or one tick up
LongHistory(n) ==
  [k \in 1..(2 * n) |->
     LET i == (k + 1) \div 2
     IN IF k % 2 = 1
        THEN RawOrder(ToString(1000 + k), "i1", 100, "buy", "market", "Filled",
                      10000, 0, "IOC", 0, "true", ToString(i), NullNum, NullNum)
        ELSE RawOrder(ToString(1000 + k), "i1", 100, "sell", "market", "Filled",
                      9999 + (i % 3), 0, "IOC", ExitTimeOf(i), "false", ToString(i),
                      NullNum, NullNum)]

\* A ledger with one broker trade, closed in the middle of the long history
ImportedLedger == << TradeRow("0", MaxPositions \div 3, 100, 100000) >>

\* A ledger holding the records of the positions of the long history that
\* closed after the cutoff, as an earlier sync stored them
SyncedLedger(cutoff) ==
  [j \in 1..(MaxPositions - cutoff) |->
     TradeRow(ToString(CHOOSE i \in 1..MaxPositions : ExitTimeOf(i) = cutoff + j),
              cutoff + j, 0, 100000)]

\* The account before its last modelled sync, against a long history
InitCap ==
  /\ \/ /\ trades \in {EmptyLedger, ImportedLedger, ManualLedger}
        /\ \E n \in {INITIAL_LIMIT - 1, INITIAL_LIMIT, INITIAL_LIMIT + 1, MaxPositions} :
             broker = LongHistory(n)
     \/ /\ \E k \in {10, INITIAL_LIMIT, INITIAL_LIMIT + 10} :
             trades = ArrayOf(SyncedLedger(MaxPositions - k))
        /\ broker = LongHistory(MaxPositions)
  /\ settings \in {NoSettings, UserSettings}
  /\ account = ConnectedAccount
  /\ clock = InitialClock + MaxRuns - 1
  /\ last = NoRun
  /\ prev = NoRun
  /\ calc = NoCalc
  /\ peer = NoPeer
  /\ inflight = NoRequests
  /\ journal = NoJournal

\* A sync request is the only step: the broker's history does not grow
NextSync ==
  \E mode \in {"initial", "refresh"}, honoured \in BOOLEAN :
    Sync(mode, honoured, Responsive, AuthUp)

SpecCap == InitCap /\ [][NextSync]_vars

\* TRUE when the run applied the cap: no external id persisted at its start,
\* or mode = initial
CapApplies(run) == run.mode = "initial" \/ run.existing = {}

\* C5: a run that starts with no persisted external id, or runs in initial
\* mode, keeps the 100 positions of the window with the latest exit times (all
\* of them when there are at most 100) and discards the older ones, and a
\* first-ever sync makes one record per kept position; a refresh run with a
\* non-empty persisted set keeps the whole window.
C5_InitialCap ==
  last.ran =>
    LET window == last.closedPositions
        kept == last.sortedPositions
        dropped == PositionIds(window) \ PositionIds(kept)
    IN IF CapApplies(last)
       THEN /\ Len(kept) = (IF Len(window) < 100 THEN Len(window) ELSE 100)
            /\ PositionIds(kept) \subseteq PositionIds(window)
            /\ Cardinality(PositionIds(kept)) = Len(kept)
            /\ \A i \in 1..Len(window) :
                 window[i].positionId \in dropped =>
                   \A k \in 1..Len(kept) : CloseMs(window[i]) <= CloseMs(kept[k])
            /\ last.existing = {} =>
                 /\ Len(last.tradesToCreate) = Len(kept)
                 /\ PositionIds(last.newPositions) = PositionIds(kept)
                 /\ Len(window) = 150 => Len(last.tradesToCreate) = 100
       ELSE kept = window

\* C5 witness: a first-ever sync over 150 reconciled positions that stored
\* 100 records
C5_Witness ==
  /\ last.ran /\ last.existing = {}
  /\ Len(last.closedPositions) = 150
  /\ Len(last.tradesToCreate) = 100
  /\ last.failed = {}
  /\ Len(trades) = Len(last.tradesBefore) + 100

\* C5 witness of the uncapped case: a refresh run with a broker trade
\* persisted that kept more than 100 positions
C5_WitnessRefresh ==
  /\ last.ran /\ last.mode = "refresh" /\ last.existing # {}
  /\ Len(last.sortedPositions) > 100

\* ------------------------------------------------------------------------
\* Arbitrary short order histories (SpecGroup)
\* ------------------------------------------------------------------------

\* The longest order history drawn
MaxOrders == 4

\* What is drawn for each order: its positionId, its status and its isOpen flag
OrderShapes == {"A", "B"} \X {"Filled", "Cancelled"} \X {"true", "false"}

\* The k-th order of a drawn history: 1.00 NAS100 at market, created at k,
\* bought when opening and sold when closing
ShapedOrder(k, shape) ==
  RawOrder(ToString(k), "i1", 100, IF shape[3] = "true" THEN "buy" ELSE "sell",
           "market", shape[2], 10000 + k, 0, "IOC", k, shape[3], shape[1],
           NullNum, NullNum)

\* The account before its last modelled sync, the ledger empty, against any
\* order history of at most MaxOrders orders
InitGroup ==
  /\ \E n \in 0..MaxOrders :
       \E shapes \in [1..n -> OrderShapes] :
         broker = [k \in 1..n |-> ShapedOrder(k, shapes[k])]
  /\ trades = EmptyLedger
  /\ settings = NoSettings
  /\ account = ConnectedAccount
  /\ clock = InitialClock + MaxRuns - 1
  /\ last = NoRun
  /\ prev = NoRun
  /\ calc = NoCalc
  /\ peer = NoPeer
  /\ inflight = NoRequests
  /\ journal = NoJournal

SpecGroup == InitGroup /\ [][NextSync]_vars

\* The orders of a fetched history that belong to a positionId
OrdersOf(orders, positionId) ==
  {i \in 1..Len(orders) : PosIdOf(orders[i]) = positionId}

\* The number of positions emitted for a positionId
EmittedFor(positions, positionId) ==
  Cardinality({i \in 1..Len(positions) : positions[i].positionId = positionId})

\* C10: groupPositionOrders emits exactly one position for a positionId whose
\* orders hold a filled opening order and a filled closing order, and none for
\* any other positionId (only an opening fill, only a closing fill, only
\* unfilled orders).
C10_RoundTripCompleteness ==
  last.ran =>
    LET orders == last.rawOrders
        positions == last.allClosedPositions
        ids == {PosIdOf(orders[i]) : i \in 1..Len(orders)} \ {""}
        OpenFilled(id) ==
          \E i \in OrdersOf(orders, id) :
            ToLower(orders[i].status) = "filled" /\ ToLower(orders[i].isOpen) = "true"
        CloseFilled(id) ==
          \E i \in OrdersOf(orders, id) :
            ToLower(orders[i].status) = "filled" /\ ToLower(orders[i].isOpen) = "false"
    IN /\ \A id \in ids :
            EmittedFor(positions, id) = (IF OpenFilled(id) /\ CloseFilled(id) THEN 1 ELSE 0)
       /\ PositionIds(positions) \subseteq ids

\* C10 witness: a history with a complete group, a group
\* holding an opening fill and an unfilled closing order, and one position out
C10_Witness ==
  /\ last.ran
  /\ Len(last.rawOrders) = 4
  /\ Len(last.allClosedPositions) = 1
  /\ \E i, j, k, l \in 1..4 :
       /\ i # j
       /\ last.rawOrders[i].positionId = "A" /\ IsOpeningFill(last.rawOrders[i])
       /\ last.rawOrders[j].positionId = "A" /\ IsClosingFill(last.rawOrders[j])
       /\ last.rawOrders[k].positionId = "B" /\ IsOpeningFill(last.rawOrders[k])
       /\ last.rawOrders[l].positionId = "B"
       /\ last.rawOrders[l].status = "Cancelled" /\ last.rawOrders[l].isOpen = "false"

\* ------------------------------------------------------------------------
\* getContractMultiplier on drawn symbols, types and rate tables (SpecMult)
\* ------------------------------------------------------------------------

XAGUSD == <<"X", "A", "G", "U", "S", "D">>
GOLD == <<"G", "O", "L", "D">>
MXAUUSD == <<"M", "X", "A", "U", "U", "S", "D">>
UK100 == <<"U", "K", "1", "0", "0">>
FTSEMIB == <<"F", "T", "S", "E", "M", "I", "B">>
EURUSD == <<"E", "U", "R", "U", "S", "D">>
EURUSDPRO == <<"E", "U", "R", "U", "S", "D", ".", "P", "R", "O">>
USDJPY == <<"U", "S", "D", "J", "P", "Y">>
USDSGD == <<"U", "S", "D", "S", "G", "D">>
USDCAD == <<"U", "S", "D", "C", "A", "D">>
GOOGLE == <<"G", "O", "O", "G", "L", "E">>

\* The symbols an instrument is drawn from
Symbols ==
  {NAS100, XAUUSD, XAGUSD, GOLD, MXAUUSD, DE40PRO, UK100, FTSEMIB, EURGBP, EURUSD,
   EURUSDPRO, USDJPY, USDSGD, USDCAD, GOOGLE, NoSymbol}

\* The instrument types drawn
InstrumentTypes == {"", "FOREX", "EQUITY_CFD"}

\* The rate tables drawn: none, EURUSD = 1.08 only, GBPUSD = 1.25 only, and
\* what getFXRates returns without a quote, with the EURUSD and GBPUSD
\* quotes, with a USDCAD quote of 1.25, and when the instruments request fails
RateTables ==
  {<<>>,
   [p \in {"EURUSD"} |-> 108],
   [p \in {"GBPUSD"} |-> 125],
   getFXRates(<<>>, TRUE),
   getFXRates([p \in {"EURUSD", "GBPUSD"} |-> IF p = "EURUSD" THEN 108 ELSE 125], TRUE),
   getFXRates([p \in {"USDCAD"} |-> 125], TRUE),
   getFXRates([p \in {"EURUSD"} |-> 108], FALSE)}

\* A call about to be made: the instrument i1 is known to the broker under a
\* drawn symbol and type, the order names i1 or the unknown i9
InitMult ==
  /\ \E symbol \in Symbols, type \in InstrumentTypes, fxRates \in RateTables,
        instId \in {"i1", "i9"} :
       calc = [instId |-> instId,
               instruments |-> [i \in {"i1"} |-> [symbol |-> symbol, type |-> type]],
               fxRates |-> fxRates,
               multiplier |-> NullNum]
  /\ trades = EmptyLedger
  /\ broker = <<>>
  /\ settings = NoSettings
  /\ account = ConnectedAccount
  /\ clock = InitialClock
  /\ last = NoRun
  /\ prev = NoRun
  /\ peer = NoPeer
  /\ inflight = NoRequests
  /\ journal = NoJournal

\* groupPositionOrders resolves the symbol and type of the order's instrument
\* and calls getContractMultiplier
Multiplier ==
  /\ calc.instId # ""
  /\ calc.multiplier = NullNum
  /\ calc' = [calc EXCEPT !.multiplier =
                getContractMultiplier(SymbolOf(calc.instruments, calc.instId),
                                      calc.fxRates,
                                      TypeOf(calc.instruments, calc.instId))]
  /\ UNCHANGED <<trades, settings, account, broker, clock, last, prev, peer, inflight, journal>>

SpecMult == InitMult /\ [][Multiplier]_vars

\* The call under study has been made
Called == calc.multiplier # NullNum

\* The symbol and type the call was made with
CalledSymbol == SymbolOf(calc.instruments, calc.instId)
CalledType == TypeOf(calc.instruments, calc.instId)

\* The order's instrument is known to the broker under a symbol
Resolved == calc.instId \in DOMAIN calc.instruments /\ CalledSymbol # NoSymbol

\* The call was made with a currency pair, untyped or typed FOREX
ForexPairs == {EURGBP, EURUSD, USDJPY, USDSGD, USDCAD}
CalledForex ==
  Called /\ Resolved /\ CalledSymbol \in ForexPairs /\ CalledType \in {"", "FOREX"}

\* The quote currency of the pair the call was made with
CalledQuote == SubSeq(CalledSymbol, 4, 6)

\* C12 (as stated): the multiplier is that of the first matching rule among
\* metals (the symbol contains XAU, XAG, GOLD or SILVER) -> 100, EU indices ->
\* 100 x EURUSD, UK indices -> 100 x GBPUSD, forex (six letters, or type
\* FOREX) -> 100000 x the quote-to-USD rate, anything else -> 1.
C12_Classification ==
  (Called /\ Resolved) =>
    LET s == NormaliseSymbol(CalledSymbol)
        base == RemoveFirstPRO(s)
        quoteCcy == SubSeq(base, IF Len(base) > 3 THEN Len(base) - 2 ELSE 1, Len(base))
        metal == \E m \in {<<"X", "A", "U">>, <<"X", "A", "G">>, GOLD,
                           <<"S", "I", "L", "V", "E", "R">>} : Includes(s, m)
        forex == \/ CalledType = "FOREX"
                 \/ (Len(s) = 6 /\ \A i \in 1..6 : s[i] \in Letters)
    IN calc.multiplier =
         IF metal THEN 100 * 100
         ELSE IF \E idx \in eurIndices : Includes(s, idx)
         THEN 100 * RateOr(calc.fxRates, "EURUSD", 100)
         ELSE IF \E idx \in gbpIndices : Includes(s, idx)
         THEN 100 * RateOr(calc.fxRates, "GBPUSD", 100)
         ELSE IF forex THEN 100000 * QuoteCcyToUSD(calc.fxRates, quoteCcy)
         ELSE 100

\* The three examples of C12 hold: XAUUSD without rates gives 100, NAS100
\* (not typed FOREX) gives 1, DE40.PRO with EURUSD = 1.08 gives 108
C12_Examples ==
  (Called /\ Resolved) =>
    /\ (CalledSymbol = XAUUSD /\ calc.fxRates = <<>>) => calc.multiplier = 100 * 100
    /\ (CalledSymbol = NAS100 /\ CalledType # "FOREX") => calc.multiplier = 100
    /\ (CalledSymbol = DE40PRO /\ calc.fxRates = [p \in {"EURUSD"} |-> 108])
         => calc.multiplier = 108 * 100

\* C13 (as stated): EURGBP with the table {GBPUSD: 1.25} gets 100000 / 1.25
C13_QuoteConversion_Original ==
  (CalledForex /\ CalledSymbol = EURGBP /\ calc.fxRates = [p \in {"GBPUSD"} |-> 125])
    => calc.multiplier = 80000 * 100

\* C13 (amended): a forex pair quoted in GBP gets 100000 times the GBPUSD
\* rate of the table, the rate itself and not its inverse, so that EURGBP
\* with the table {GBPUSD: 1.25} gets 125000.
C13_QuoteConversion ==
  (CalledForex /\ CalledSymbol = EURGBP /\ "GBPUSD" \in DOMAIN calc.fxRates)
    => /\ calc.multiplier = 100000 * calc.fxRates["GBPUSD"]
       /\ calc.fxRates["GBPUSD"] = 125 => calc.multiplier = 125000 * 100

C13_Witness ==
  /\ CalledForex
  /\ CalledSymbol = EURGBP
  /\ calc.fxRates = [p \in {"GBPUSD"} |-> 125]
  /\ calc.multiplier = 125000 * 100

\* The rates of the table that convert a quote currency to USD
NeededRates(quoteCcy) ==
  CASE quoteCcy = <<"E", "U", "R">> -> {"EURUSD"}
    [] quoteCcy = <<"G", "B", "P">> -> {"GBPUSD"}
    [] quoteCcy = <<"C", "A", "D">> -> {"CADUSD", "USDCAD"}
    [] quoteCcy = <<"J", "P", "Y">> -> {"JPYUSD", "USDJPY"}
    [] quoteCcy = <<"S", "G", "D">> -> {"SGDUSD", "USDSGD"}
    [] OTHER -> {}

\* The call was made with an index of the EU (UK) family and no EURUSD
\* (GBPUSD) rate in the table
IndexWithoutRate ==
  /\ Called /\ Resolved
  /\ \/ CalledSymbol \in {DE40PRO, FTSEMIB} /\ "EURUSD" \notin DOMAIN calc.fxRates
     \/ CalledSymbol = UK100 /\ "GBPUSD" \notin DOMAIN calc.fxRates

\* The call was made with a pair whose quote currency is not USD and has no
\* rate in the table
ForexWithoutRate ==
  /\ CalledForex
  /\ CalledQuote # <<"U", "S", "D">>
  /\ NeededRates(CalledQuote) \cap DOMAIN calc.fxRates = {}

PricePairs ==
  {<<2487612, 2486941>>, <<2486941, 2487612>>, <<10000, 10050>>, <<10050, 10000>>,
   <<10000, 10000>>, <<0, 10000>>, <<10000, 0>>}

\* The quantities drawn, in units of 0.01
Quantities == {0, 1, 19, 100}

\* An opening fill at 1 and a closing fill at 2 of position "P"
RoundTrip(inst, side, qty, prices) ==
  <<RawOrder("1", inst, qty, side, "market", "Filled", prices[1], 0, "IOC", 1,
             "true", "P", NullNum, NullNum),
    RawOrder("2", inst, qty, IF ToLower(side) = "sell" THEN "buy" ELSE "sell", "market",
             "Filled", prices[2], 0, "IOC", 2, "false", "P", NullNum, NullNum)>>

\* The account before its last modelled sync, the ledger empty, against one
\* round trip in NAS100 (i1) or XAUUSD (i2)
InitPnl ==
  /\ \E inst \in {"i1", "i2"}, side \in {"buy", "sell", "Sell"}, qty \in Quantities,
        prices \in PricePairs :
       broker = RoundTrip(inst, side, qty, prices)
  /\ trades = EmptyLedger
  /\ settings = NoSettings
  /\ account = ConnectedAccount
  /\ clock = InitialClock + MaxRuns - 1
  /\ last = NoRun
  /\ prev = NoRun
  /\ calc = NoCalc
  /\ peer = NoPeer
  /\ inflight = NoRequests
  /\ journal = NoJournal

SpecPnl == InitPnl /\ [][NextSync]_vars

\* round-to-2-decimals(priceDiff * quantity * multiplier) of a position, in
\* cents, the multiplier being 1 for NAS100 (i1) and 100 for XAUUSD (i2)
ExpectedGrossPnl(position) ==
  LET priceDiff == IF position.side = "sell"
                   THEN position.openPrice - position.exitPrice
                   ELSE position.exitPrice - position.openPrice
      multiplier == IF position.tradableInstrumentId = "i2" THEN 100 ELSE 1
  IN (priceDiff * position.qty * multiplier * 100 + 5000) \div 10000

\* C11: a position with positive entry price, exit price and quantity has
\* grossPnl = round2(priceDiff x quantity x multiplier), priceDiff being
\* entry - exit for a sell and exit - entry otherwise (sell 0.19 from
\* 24876.12 to 24869.41 at multiplier 1 gives 1.27), and the trade record
\* created from the position has this grossPnl as its pnl.
C11_GrossPnl ==
  last.ran =>
    \A k \in 1..Len(last.allClosedPositions) :
      LET position == last.allClosedPositions[k]
      IN (position.openPrice > 0 /\ position.exitPrice > 0 /\ position.qty > 0) =>
           /\ position.profit = ExpectedGrossPnl(position)
           /\ (/\ position.side = "sell" /\ position.qty = 19
               /\ position.openPrice = 2487612 /\ position.exitPrice = 2486941
               /\ position.tradableInstrumentId = "i1") => position.profit = 127
           /\ \A i \in 1..Len(trades) :
                trades[i].tradelockerTradeId = position.positionId
                  => trades[i].pnl = position.profit
           /\ position.positionId \in last.created
                => \E i \in 1..Len(trades) :
                     trades[i].tradelockerTradeId = position.positionId

\* C11 witness: the example of the spec has been synced, and its record
\* carries 1.27
C11_Witness ==
  /\ last.ran
  /\ last.created = {"P"}
  /\ Len(trades) = 1
  /\ trades[1].pnl = 127
  /\ last.allClosedPositions[1].side = "sell"
  /\ last.allClosedPositions[1].qty = 19
  /\ last.allClosedPositions[1].openPrice = 2487612
  /\ last.allClosedPositions[1].exitPrice = 2486941

\* ------------------------------------------------------------------------
\* One sync run against a broker that may fail and an account whose token
\* may have expired (SpecEnv)
\* ------------------------------------------------------------------------

\* How the broker answers the requests to one URL; the retry only matters
\* after a 429
EndpointAnswers ==
  {[first |-> f, retry |-> r] : f \in ResponseKinds \ {"429"}, r \in {"ok"}}
    \cup {[first |-> "429", retry |-> r] : r \in ResponseKinds}

\* The answers of the two URLs; the second only matters when the first URL
\* did not answer ok
NetCases ==
  {net \in [1..2 -> EndpointAnswers] :
     TryEndpoint(Endpoints[1], net[1], <<>>).done => net[2] = Responsive[2]}

\* How the auth service answers: the refresh, the login, and whether the
\* login returns a refresh token
AuthCases ==
  [refresh : {"ok", "fail"}, login : {"ok", "rejected"}, newRefreshToken : BOOLEAN]

\* The account rows drawn at time now: no token, a token that expired, one
\* that expires now, one still valid; with or without a refresh token; the
\* password readable or not; and an account that was disconnected
AccountRows(now) ==
  {AccountRow(t[1], t[2], r, p) :
     t \in {<<NullNum, NullNum>>, <<1, now - 1>>, <<1, now>>, <<1, now + 1>>},
     r \in {NullNum, 1},
     p \in {EncryptedPassword, CorruptPassword}}
    \cup {[ConnectedAccount EXCEPT !.isConnected = FALSE]}

\* The account before its last modelled sync: positions A, B and C at the
\* broker, the ledger empty or holding A
InitEnv ==
  /\ trades \in {EmptyLedger, LegacyLedger}
  /\ broker = SubSeq(OrderHistory, 1, 7)
  /\ settings = UserSettings
  /\ account \in AccountRows(InitialClock + MaxRuns - 1)
  /\ clock = InitialClock + MaxRuns - 1
  /\ last = NoRun
  /\ prev = NoRun
  /\ calc = NoCalc
  /\ peer = NoPeer
  /\ inflight = NoRequests
  /\ journal = NoJournal

\* A sync request is the only step; the environment answers in any way
NextEnv ==
  \E mode \in {"initial", "refresh"}, honoured \in BOOLEAN, net \in NetCases,
     auth \in AuthCases :
    Sync(mode, honoured, net, auth)

SpecEnv == InitEnv /\ [][NextEnv]_vars

\* The number of requests a run sent to a URL
RequestsTo(run, url) ==
  Cardinality({i \in 1..Len(run.requests) : run.requests[i] = url})

\* A request of the run was answered ok with a non-empty list
YieldedData(run) ==
  \E i \in 1..Len(run.responses) : run.responses[i] = "ok" /\ run.rawOrders # <<>>

\* C15: a 429 to a history request is followed by one wait and exactly one
\* retry of the same request (never more than two requests to one URL per
\* call); a retry that is not successful ends the request, and when no
\* request yields data the call returns an empty list, the run completes with
\* created = 0 and no trade record changed.
C15_RateLimitRetry ==
  (last.status = 200) =>
    /\ \A e \in 1..2 : RequestsTo(last, Endpoints[e]) <= 2
    /\ \A i \in 1..Len(last.requests) :
         \* a first request answered 429 is retried once, and nothing else is
         /\ (i = 1 \/ last.requests[i - 1] # last.requests[i]) =>
              ((last.responses[i] = "429")
                 <=> (i < Len(last.requests) /\ last.requests[i + 1] = last.requests[i]))
    /\ last.waits =
         Cardinality({i \in 1..Len(last.requests) :
                        (i = 1 \/ last.requests[i - 1] # last.requests[i])
                          /\ last.responses[i] = "429"})
    /\ ~YieldedData(last) =>
         /\ last.rawOrders = <<>>
         /\ last.created = {}
         /\ last.failed = {}
         /\ trades = last.tradesBefore

\* C15 witness: both URLs answered 429 twice, while the broker holds closed
\* positions; the run completed and stored nothing
C15_Witness ==
  /\ last.status = 200
  /\ last.responses = <<"429", "429", "429", "429">>
  /\ last.requests = <<"ordersHistory", "ordersHistory", "positionsHistory", "positionsHistory">>
  /\ last.waits = 2
  /\ Len(broker) > 0
  /\ last.created = {}
  /\ trades = last.tradesBefore

\* The last request reached getValidAccessToken
TokenRequested == last.now # NullNum /\ last.accountBefore.isConnected

\* The account the last request read held an access token whose expiry was
\* in the future
CachedValid ==
  /\ last.accountBefore.accessToken # NullNum
  /\ last.accountBefore.tokenExpiresAt # NullNum
  /\ last.accountBefore.tokenExpiresAt > last.now

\* The fields of the account row that hold the token
TokenFields == {"accessToken", "tokenExpiresAt", "refreshToken"}

\* The token fields of the account are what the last request read
TokenFieldsUnchanged == \A f \in TokenFields : account[f] = last.accountBefore[f]

\* The last request had no refresh token to use, or its refresh was refused
RefreshUnavailable ==
  last.accountBefore.refreshToken = NullNum \/ last.auth.refresh # "ok"

\* C16: getValidAccessToken returns the cached token, with no refresh or auth
\* call and no write, whenever the cached token exists and expires in the
\* future; otherwise it tries a refresh first if and only if a refresh token
\* is stored, and it re-authenticates with the decrypted credential only when
\* no refresh token is stored or the refresh failed; a failed refresh followed
\* by a successful re-authentication yields a valid token and no error.
C16_TokenLifecycle ==
  TokenRequested =>
    LET token == last.token
        stored == last.accountBefore
        Made(c) == \E i \in 1..Len(token.calls) : token.calls[i] = c
    IN /\ CachedValid =>
            /\ token.ok /\ token.accessToken = stored.accessToken
            /\ token.calls = <<>> /\ token.data = <<>>
            /\ TokenFieldsUnchanged
       /\ ~CachedValid =>
            /\ Made("refresh") <=> stored.refreshToken # NullNum
            /\ Made("refresh") => token.calls[1] = "refresh"
            /\ Made("auth") <=> (RefreshUnavailable /\ Decryptable(stored.password))
            /\ Len(token.calls) <= 2
       /\ (~CachedValid /\ stored.refreshToken # NullNum /\ last.auth.refresh # "ok"
             /\ Decryptable(stored.password) /\ last.auth.login = "ok") =>
            /\ token.ok /\ token.error = "" /\ last.status = 200
            /\ token.calls = <<"refresh", "auth">>
            /\ account.accessToken = token.accessToken
            /\ account.tokenExpiresAt > last.now

\* C16 witness: the cached token had expired, the refresh was refused, the
\* login succeeded and the run completed
C16_Witness ==
  /\ TokenRequested
  /\ last.accountBefore.accessToken # NullNum
  /\ ~CachedValid
  /\ last.token.calls = <<"refresh", "auth">>
  /\ last.token.ok
  /\ last.status = 200
  /\ account.accessToken = last.now

\* C18: when the stored credential cannot be decrypted, or the
\* re-authentication is rejected, the run fails with no trade record created,
\* the token fields unchanged and lastSyncedAt not advanced; the error of a
\* decryption failure asks to reconnect the account and differs from the
\* error of a failed auth request.
C18_CredentialFailure ==
  (TokenRequested /\ ~CachedValid /\ RefreshUnavailable) =>
    LET undecryptable == ~Decryptable(last.accountBefore.password)
        rejected == ~undecryptable /\ last.auth.login # "ok"
    IN /\ (undecryptable \/ rejected) =>
            /\ last.status = 500
            /\ ~last.ran
            /\ last.created = {}
            /\ trades = last.tradesBefore
            /\ TokenFieldsUnchanged
            /\ account.lastSyncedAt = last.accountBefore.lastSyncedAt
       /\ undecryptable => (last.error = ReconnectError /\ last.error # AuthError)
       /\ rejected => last.error = AuthError

\* C18 witness: no refresh token, the password unreadable, the broker
\* holding new positions; the request ended with the reconnect error
C18_Witness ==
  /\ TokenRequested
  /\ last.accountBefore.refreshToken = NullNum
  /\ last.accountBefore.password = CorruptPassword
  /\ ~CachedValid
  /\ last.status = 500
  /\ last.error = ReconnectError
  /\ last.tradesBefore = EmptyLedger
  /\ trades = EmptyLedger
  /\ Len(broker) > 0

\* ------------------------------------------------------------------------
\* Overlapping requests of one or two users, one step per await of the
\* handler (SpecConc)
\* ------------------------------------------------------------------------

\* The rows findUnique({ where: { userId } }) returns
AccountOf(userId) == IF userId = "u1" THEN account ELSE peer.account
SettingsOf(userId) == IF userId = "u1" THEN settings ELSE peer.settings

\* The history the broker holds for the user's account
BrokerOf(userId) == IF userId = "u1" THEN broker ELSE peer.broker

\* prisma.tradeLockerAccount.update({ where: { userId }, ... }): the row of
\* the user becomes row, the other user's row is left alone
WriteAccount(userId, row) ==
  IF userId = "u1"
  THEN account' = row /\ peer' = peer
  ELSE account' = account /\ peer' = [peer EXCEPT !.account = row]

\* The users a request slot serves: r1 is a request of u1, r2 one of u1 or u2
UsersOf(r) == IF r = "r1" THEN {"u1"} ELSE {"u1", "u2"}

\* An account whose token expired at time now, with a refresh token
ExpiredAccount(now) == AccountRow(1, now, 1, EncryptedPassword)

\* Two users whose brokers number their positions alike (A and B), u1 with
\* settings and an empty or a legacy ledger, u2 without settings; the stored
\* token of each expired or valid
InitConc ==
  /\ trades \in {EmptyLedger, LegacyLedger}
  /\ broker = SubSeq(OrderHistory, 1, 5)
  /\ settings = UserSettings
  /\ account \in {ExpiredAccount(InitialClock), ConnectedAccount}
  /\ \E row \in {ExpiredAccount(InitialClock), ConnectedAccount} :
       peer = [settings |-> NoSettings, account |-> row, broker |-> SubSeq(OrderHistory, 1, 5)]
  /\ clock = InitialClock
  /\ last = NoRun
  /\ prev = NoRun
  /\ calc = NoCalc
  /\ inflight = NoRequests
  /\ journal = NoJournal

\* The request arrives: the account row is read; 400 when not connected
Begin(r, userId, mode) ==
  /\ inflight[r].pc = "idle"
  /\ inflight' =
       [inflight EXCEPT ![r] =
          IF ~AccountOf(userId).isConnected
          THEN [Idle EXCEPT !.pc = "done", !.userId = userId, !.mode = mode,
                            !.status = 400, !.error = "TradeLocker account not connected"]
          ELSE [Idle EXCEPT !.pc = "token", !.userId = userId, !.mode = mode,
                            !.account = AccountOf(userId),
                            !.begin = [trades |-> trades, settings |-> settings,
                                       account |-> account, broker |-> broker,
                                       peer |-> peer]]]
  /\ UNCHANGED <<trades, settings, account, broker, clock, last, prev, calc, peer, journal>>

\* await getValidAccessToken(account), on the row the request read; its
\* update is applied to the row as stored now; a throw ends the request
Token(r, auth) ==
  /\ inflight[r].pc = "token"
  /\ \E token \in {getValidAccessToken(inflight[r].account, clock, auth)} :
       \E written \in {AccountUpdate(AccountOf(inflight[r].userId), token.data)} :
         /\ WriteAccount(inflight[r].userId, written)
         /\ inflight' =
              [inflight EXCEPT ![r] =
                 [@ EXCEPT !.pc = IF token.ok THEN "plan" ELSE "done",
                           !.token = token,
                           !.storedAtToken = AccountOf(inflight[r].userId),
                           !.writtenAtToken = written,
                           !.tokenAt = clock,
                           !.status = IF token.ok THEN 0 ELSE 500,
                           !.error = token.error]]
  /\ UNCHANGED <<trades, settings, broker, clock, last, prev, calc, journal>>

\* From getAccountBalance to the end of the dedup loop: the settings and the
\* user's trades are read, the orders fetched, the trades to create computed
Plan(r, honoured, net) ==
  /\ inflight[r].pc = "plan"
  /\ \E plan \in {UserPlan(trades, inflight[r].userId, SettingsOf(inflight[r].userId),
                           BrokerOf(inflight[r].userId), inflight[r].mode, honoured, net,
                           clock)} :
       inflight' = [inflight EXCEPT ![r] =
                      [@ EXCEPT !.pc = "insert", !.plan = plan, !.planAt = clock,
                                !.honoured = honoured, !.net = net, !.k = 1]]
  /\ UNCHANGED <<trades, settings, account, broker, clock, last, prev, calc, peer, journal>>

\* error.message of a rejected prisma query
StoreError == "Can't reach database server"

\* A query between the token and the fetch (prisma.settings.findUnique, the
\* two prisma.trade reads) rejects: the outer catch answers 500
ReadFails(r) ==
  /\ inflight[r].pc = "plan"
  /\ inflight' = [inflight EXCEPT ![r] =
                    [@ EXCEPT !.pc = "done", !.status = 500, !.error = StoreError]]
  /\ UNCHANGED <<trades, settings, account, broker, clock, last, prev, calc, peer, journal>>

\* One iteration of the insert loop: await prisma.trade.create
Insert(r, storeError) ==
  /\ inflight[r].pc = "insert"
  /\ inflight[r].k <= Len(inflight[r].plan.tradesToCreate)
  /\ \E res \in {TradeCreate(trades, inflight[r].plan.tradesToCreate[inflight[r].k],
                             storeError)} :
       /\ trades' = res.rows
       /\ inflight' =
            [inflight EXCEPT ![r] =
               [@ EXCEPT !.k = @ + 1,
                         !.created = IF res.ok THEN @ \cup {inflight[r].k} ELSE @,
                         !.failed = IF res.ok THEN @ ELSE @ \cup {inflight[r].k},
                         !.storeErrors = IF storeError THEN @ \cup {inflight[r].k} ELSE @]]
  /\ UNCHANGED <<settings, account, broker, clock, last, prev, calc, peer, journal>>

\* After the loop: lastSyncedAt is written and the response sent
Checkpoint(r) ==
  /\ inflight[r].pc = "insert"
  /\ inflight[r].k > Len(inflight[r].plan.tradesToCreate)
  /\ WriteAccount(inflight[r].userId,
                  [AccountOf(inflight[r].userId) EXCEPT !.lastSyncedAt = clock + 1])
  /\ clock' = clock + 1
  /\ inflight' = [inflight EXCEPT ![r] = [@ EXCEPT !.pc = "done", !.status = 200]]
  /\ UNCHANGED <<trades, settings, broker, last, prev, calc, journal>>

\* The broker answers every request, or every history request with 429
RateLimited == [e \in 1..2 |-> [first |-> "429", retry |-> "429"]]

\* The auth service refuses the refresh and accepts the login
RefreshDown == [refresh |-> "fail", login |-> "ok", newRefreshToken |-> FALSE]

NextConc ==
  \/ \E r \in Requests, mode \in {"initial", "refresh"} :
       \E userId \in UsersOf(r) : Begin(r, userId, mode)
  \/ \E r \in Requests, auth \in {AuthUp, RefreshDown} : Token(r, auth)
  \/ \E r \in Requests, net \in {Responsive, RateLimited} : Plan(r, TRUE, net)
  \/ \E r \in Requests : ReadFails(r)
  \/ \E r \in Requests, storeError \in BOOLEAN : Insert(r, storeError)
  \/ \E r \in Requests : Checkpoint(r)

SpecConc == InitConc /\ [][NextConc]_vars

\* The token the row held was valid at the time
ValidAt(row, now) ==
  row.accessToken # NullNum /\ row.tokenExpiresAt # NullNum /\ row.tokenExpiresAt > now

\* C17 (as stated): every successful refresh or re-authentication writes the
\* new token and its expiry to the account row before the token is used, and
\* a concurrent or subsequent request of that account that needs a token
\* before that expiry reuses the stored token and makes no refresh or auth
\* request of its own.
C17_TokenPersistence ==
  \A r \in Requests :
    inflight[r].tokenAt # NullNum =>
      /\ (inflight[r].token.ok /\ inflight[r].token.calls # <<>>) =>
           /\ inflight[r].writtenAtToken.accessToken = inflight[r].token.accessToken
           /\ inflight[r].writtenAtToken.tokenExpiresAt = inflight[r].tokenAt + TokenLifetime
      /\ ValidAt(inflight[r].storedAtToken, inflight[r].tokenAt) =>
           /\ inflight[r].token.calls = <<>>
           /\ inflight[r].token.accessToken = inflight[r].storedAtToken.accessToken

\* What holds of C17: the write comes with the refresh or re-authentication,
\* and a request that read the account row after the write reuses the token
C17_ReuseAfterWrite ==
  \A r \in Requests :
    inflight[r].tokenAt # NullNum =>
      /\ (inflight[r].token.ok /\ inflight[r].token.calls # <<>>) =>
           /\ inflight[r].writtenAtToken.accessToken = inflight[r].token.accessToken
           /\ inflight[r].writtenAtToken.tokenExpiresAt = inflight[r].tokenAt + TokenLifetime
      /\ (/\ ValidAt(inflight[r].storedAtToken, inflight[r].tokenAt)
          /\ inflight[r].account = inflight[r].storedAtToken) =>
           /\ inflight[r].token.calls = <<>>
           /\ inflight[r].token.accessToken = inflight[r].storedAtToken.accessToken

\* The user that is not userId
OtherUser(userId) == IF userId = "u1" THEN "u2" ELSE "u1"

\* The request r completed, and no other request was made for its user
CompletedApart(r) ==
  /\ inflight[r].pc = "done"
  /\ inflight[r].status = 200
  /\ \A o \in Requests \ {r} : inflight[o].userId # inflight[r].userId

\* C19: sync runs of two different accounts, interleaved in any order, each
\* persist the same trade records, counts and balances as when run alone, and
\* a run reads and writes only the trades, settings, token fields and
\* checkpoint of its own account.
C19_AccountIsolation ==
  \A r \in Requests :
    CompletedApart(r) =>
      LET q == inflight[r]
          atBegin == q.begin
          other == OtherUser(q.userId)
          ownSettings == IF q.userId = "u1" THEN atBegin.settings ELSE atBegin.peer.settings
          ownBroker == IF q.userId = "u1" THEN atBegin.broker ELSE atBegin.peer.broker
          otherAccount == IF other = "u1" THEN atBegin.account ELSE atBegin.peer.account
          otherSettings == IF other = "u1" THEN atBegin.settings ELSE atBegin.peer.settings
          alonePlan == UserPlan(atBegin.trades, q.userId, ownSettings, ownBroker, q.mode,
                                q.honoured, q.net, q.planAt)
          aloneIns == InsertLoop(atBegin.trades, alonePlan.tradesToCreate, q.storeErrors)
      IN /\ q.plan = alonePlan
         /\ q.created = aloneIns.created
         /\ q.failed = aloneIns.failed
         /\ TradesOf(trades, q.userId) = TradesOf(aloneIns.rows, q.userId)
         /\ (\A o \in Requests \ {r} : inflight[o].pc = "idle") =>
              /\ TradesOf(trades, other) = TradesOf(atBegin.trades, other)
              /\ AccountOf(other) = otherAccount
              /\ SettingsOf(other) = otherSettings

\* C19 witness: a request of u1 and one of u2 both completed, their inserts
\* alternating, for positions the two brokers number alike
C19_Witness ==
  /\ CompletedApart("r1") /\ CompletedApart("r2")
  /\ Len(trades) = 4
  /\ trades[1].userId # trades[2].userId
  /\ trades[2].userId # trades[3].userId
  /\ trades[3].userId # trades[4].userId
  /\ trades[1].tradelockerTradeId = trades[2].tradelockerTradeId
  /\ trades[1].closeBalance # trades[2].closeBalance

\* C20: a sync run never updates or deletes a trade record persisted before
\* (an insert whose key exists is a no-op) and never changes the settings of
\* a user; it only inserts trade records and writes the token fields and
\* lastSyncedAt of the account.
C20_Frame ==
  [][/\ Len(trades') >= Len(trades)
     /\ SubSeq(trades', 1, Len(trades)) = trades
     /\ \A i \in (Len(trades) + 1)..Len(trades') : ~UniqueConflict(trades, trades'[i])
     /\ settings' = settings
     /\ peer'.settings = peer.settings
     /\ \A f \in DOMAIN account \ (TokenFields \cup {"lastSyncedAt"}) :
          account'[f] = account[f] /\ peer'.account[f] = peer.account[f]]_vars

\* C20 witness: a request completed whose create of an existing key was
\* rejected by the unique index, after a token write
C20_Witness ==
  \E r \in Requests :
    /\ inflight[r].pc = "done"
    /\ inflight[r].status = 200
    /\ inflight[r].failed # {}
    /\ inflight[r].storeErrors = {}
    /\ inflight[r].token.data # <<>>

\* The external ids a request planned to create
PlannedIds(q) ==
  {q.plan.tradesToCreate[k].tradelockerTradeId : k \in 1..Len(q.plan.tradesToCreate)}

\* The external ids of the creates a request counted
CreatedIds(q) == {q.plan.tradesToCreate[k].tradelockerTradeId : k \in q.created}

\* Two requests of u1 overlap so that both read the persisted external-id set
\* before either inserted
BothReadBeforeInserts ==
  /\ \A r \in Requests : inflight[r].userId = "u1" /\ inflight[r].pc \in {"insert", "done"}
  /\ inflight["r1"].begin.trades = inflight["r2"].begin.trades
  /\ \A r \in Requests :
       inflight[r].plan.existing
         = existingTradeLockerIds(TradesOf(inflight[r].begin.trades, "u1"))

\* C29: when two runs of one account both read the persisted external-id set
\* before either inserts, the ledger holds at most one record per external id
\* in every interleaving of their inserts, and of two inserts for one id the
\* second is rejected and not counted in created.
C29_OverlappingRuns ==
  BothReadBeforeInserts =>
    /\ \A i, j \in 1..Len(trades) :
         (/\ i # j
          /\ trades[i].userId = trades[j].userId
          /\ trades[i].tradelockerTradeId # "")
           => trades[i].tradelockerTradeId # trades[j].tradelockerTradeId
    /\ CreatedIds(inflight["r1"]) \cap CreatedIds(inflight["r2"]) = {}
    /\ \A r \in Requests :
         \A k \in inflight[r].created :
           \E i \in 1..Len(trades) : trades[i] = inflight[r].plan.tradesToCreate[k]

\* C29 witness: both requests planned the same two ids and completed, each
\* created one of them and had the other rejected by the index
C29_Witness ==
  /\ BothReadBeforeInserts
  /\ \A r \in Requests : inflight[r].pc = "done" /\ inflight[r].storeErrors = {}
  /\ PlannedIds(inflight["r1"]) = PlannedIds(inflight["r2"])
  /\ Cardinality(PlannedIds(inflight["r1"])) = 2
  /\ Cardinality(inflight["r1"].created) = 1 /\ Cardinality(inflight["r1"].failed) = 1
  /\ Cardinality(inflight["r2"].created) = 1 /\ Cardinality(inflight["r2"].failed) = 1

\* C25: when the create of a trade record is rejected by the unique index,
\* the run goes on with the remaining inserts and ends successfully, the
\* stored record is unchanged and the rejected row is not counted in created.
C25_DuplicateSwallowed ==
  [][\A r \in Requests :
       /\ (/\ inflight[r].pc = "insert"
           /\ inflight'[r].k = inflight[r].k + 1
           /\ UniqueConflict(trades, inflight[r].plan.tradesToCreate[inflight[r].k])) =>
            /\ trades' = trades
            /\ inflight'[r].created = inflight[r].created
            /\ inflight'[r].failed = inflight[r].failed \cup {inflight[r].k}
            /\ inflight'[r].pc = "insert"
       /\ (inflight[r].pc = "insert" /\ inflight'[r].pc = "done") =>
            /\ inflight'[r].status = 200
            /\ inflight[r].k = Len(inflight[r].plan.tradesToCreate) + 1
            /\ inflight[r].created \cup inflight[r].failed
                 = 1..Len(inflight[r].plan.tradesToCreate)]_vars

\* C25 witness: a request completed in which a create was rejected by the
\* index alone and a later create of the same request succeeded
C25_Witness ==
  \E r \in Requests :
    /\ inflight[r].pc = "done"
    /\ inflight[r].status = 200
    /\ \E i \in inflight[r].failed \ inflight[r].storeErrors :
         \E j \in inflight[r].created : j > i

\* TRUE when the position is among the n positions of the window with the
\* latest exit times
AmongMostRecent(pos, window, n) ==
  Cardinality({i \in 1..Len(window) : CloseMs(window[i]) > CloseMs(pos)}) < n

\* The positions of the window that are among the n with the latest exit times
MostRecentIds(window, n) ==
  {window[i].positionId : i \in {k \in 1..Len(window) : AmongMostRecent(window[k], window, n)}}

\* C30: in a capped run (mode = initial, or no external id persisted) the cap
\* of 100 is applied to the window before the dedup check: created + skipped
\* is at most 100, and no position outside the 100 with the latest exit times
\* is created, whatever part of those 100 is already persisted.
C30_CapBeforeDedup ==
  (last.ran /\ CapApplies(last)) =>
    LET recent == MostRecentIds(last.closedPositions, INITIAL_LIMIT)
    IN /\ Cardinality(last.created) + Len(last.skipped) <= INITIAL_LIMIT
       /\ Len(last.tradesToCreate) + Len(last.skipped) <= INITIAL_LIMIT
       /\ last.created \subseteq recent
       /\ \A k \in 1..Len(last.tradesToCreate) :
            last.tradesToCreate[k].tradelockerTradeId \in recent
       /\ \A i \in (Len(last.tradesBefore) + 1)..Len(trades) :
            trades[i].tradelockerTradeId \in recent
       /\ Range(last.skipped) \subseteq recent

\* C30 witness: an initial-mode run over 150 positions of which some of the
\* 100 most recent were persisted: it skipped those, created the others of
\* the 100 and none of the 50 older ones
C30_Witness ==
  /\ last.ran /\ last.mode = "initial"
  /\ Len(last.closedPositions) = MaxPositions
  /\ Len(last.skipped) = 10
  /\ Cardinality(last.created) = INITIAL_LIMIT - 10
  /\ Len(trades) = INITIAL_LIMIT

\* C30 witness of the fully persisted case: a capped run whose 100 most
\* recent positions were all persisted created nothing
C30_WitnessAll ==
  /\ last.ran /\ CapApplies(last)
  /\ Len(last.closedPositions) = MaxPositions
  /\ Len(last.skipped) = INITIAL_LIMIT
  /\ last.created = {}
  /\ Len(trades) >= INITIAL_LIMIT

\* The request ended without reaching the insert loop
FailedBeforePersist(q) == q.pc = "done" /\ q.status # 200

\* C26 (as stated): a run that fails at a step before the persist step has
\* written nothing to the persistent store.
C26_NothingWritten ==
  \A r \in Requests :
    FailedBeforePersist(inflight[r]) =>
      /\ inflight[r].created = {}
      /\ inflight[r].tokenAt # NullNum =>
           inflight[r].writtenAtToken = inflight[r].storedAtToken

\* C26 (what holds): the steps of a run before the insert loop write no trade
\* record, no settings and no field of an account row but the token fields,
\* so a run that fails before the persist step has created no record and left
\* lastSyncedAt alone; the token fields it refreshed stay written.
C26_OnlyTokenWritten ==
  [][\A r \in Requests :
       /\ FailedBeforePersist(inflight[r]) =>
            /\ inflight[r].created = {} /\ inflight[r].k = 0
            /\ inflight[r].tokenAt # NullNum =>
                 \A f \in DOMAIN account \ TokenFields :
                   inflight[r].writtenAtToken[f] = inflight[r].storedAtToken[f]
       /\ (inflight'[r] # inflight[r] /\ inflight[r].pc \in {"idle", "token", "plan"}) =>
            /\ trades' = trades
            /\ settings' = settings
            /\ peer'.settings = peer.settings
            /\ \A f \in DOMAIN account \ TokenFields :
                 account'[f] = account[f] /\ peer'.account[f] = peer.account[f]]_vars

\* C26 witness: a request that refreshed its token, wrote it, and then failed
\* on a store read
C26_Witness ==
  \E r \in Requests :
    /\ FailedBeforePersist(inflight[r])
    /\ inflight[r].error = StoreError
    /\ inflight[r].token.data # <<>>
    /\ inflight[r].writtenAtToken # inflight[r].storedAtToken
    /\ AccountOf(inflight[r].userId).accessToken = inflight[r].token.accessToken

\* ------------------------------------------------------------------------
\* One position with several fills, brackets and stray orders (SpecFills)
\* ------------------------------------------------------------------------

\* The longest order history drawn from the catalogue
MaxFills == 4

\* The orders a history is drawn from, each with its own creation time:
\*   1, 2   opening fills of A (buy), the second with a stop-loss field
\*   3, 4   closing fills of A (sell)
\*   5, 6   sell stops of A, GTC, cancelled / pending
\*   7      a sell limit of A, GTC, status empty
\*   8      a cancelled sell stop of A that is not GTC
\*   9      a cancelled GTC limit of A on the side of the opening fill
\*   10, 11 an opening and a closing fill without positionId
FillCatalogue ==
  << RawOrder("o1", "i1", 100, "buy", "market", "Filled", 10000, 0, "IOC", 2, "true", "A", NullNum, NullNum),
     RawOrder("o2", "i1", 200, "Buy", "limit", "Filled", 10100, 10100, "GTC", 1, "true", "A", 9500, NullNum),
     RawOrder("c1", "i1", 100, "sell", "market", "Filled", 10200, 0, "IOC", 6, "false", "A", NullNum, NullNum),
     RawOrder("c2", "i1", 100, "sell", "market", "Filled", 10300, 0, "IOC", 5, "false", "A", NullNum, NullNum),
     RawOrder("s1", "i1", 100, "sell", "stop", "Cancelled", 0, 9000, "GTC", 3, "false", "A", NullNum, NullNum),
     RawOrder("s2", "i1", 100, "sell", "stop", "Pending", 0, 9100, "GTC", 4, "false", "A", NullNum, NullNum),
     RawOrder("l1", "i1", 100, "sell", "limit", "", 0, 11000, "GTC", 7, "false", "A", NullNum, NullNum),
     RawOrder("x1", "i1", 100, "sell", "stop", "Cancelled", 0, 9200, "IOC", 8, "false", "A", NullNum, NullNum),
     RawOrder("x2", "i1", 100, "buy", "limit", "Cancelled", 0, 9300, "GTC", 9, "false", "A", NullNum, NullNum),
     RawOrder("n1", "i1", 100, "buy", "market", "Filled", 20000, 0, "IOC", 10, "true", "", NullNum, NullNum),
     RawOrder("n2", "i1", 100, "sell", "market", "Filled", 20100, 0, "IOC", 11, "false", " ", NullNum, NullNum) >>

\* The account before its last modelled sync, the ledger empty, against any
\* history of at most MaxFills different orders of the catalogue, in any order
InitFills ==
  /\ \E n \in 0..MaxFills :
       \E picks \in [1..n -> 1..Len(FillCatalogue)] :
         /\ \A i, j \in 1..n : i # j => picks[i] # picks[j]
         /\ broker = [k \in 1..n |-> FillCatalogue[picks[k]]]
  /\ trades = EmptyLedger
  /\ settings = NoSettings
  /\ account = ConnectedAccount
  /\ clock = InitialClock + MaxRuns - 1
  /\ last = NoRun
  /\ prev = NoRun
  /\ calc = NoCalc
  /\ peer = NoPeer
  /\ inflight = NoRequests
  /\ journal = NoJournal

SpecFills == InitFills /\ [][NextSync]_vars

\* The rearrangements of a sequence
Rearrangements(s) ==
  {ArrayOf([k \in 1..Len(s) |-> s[p[k]]]) :
     p \in {q \in [1..Len(s) -> 1..Len(s)] : \A i, j \in 1..Len(s) : i # j => q[i] # q[j]}}

\* The orders of a history that belong to the position
GroupOf(orders, positionId) ==
  {orders[i] : i \in {k \in 1..Len(orders) : PosIdOf(orders[k]) = positionId}}

\* The fills of a position come from its earliest opening fill and its latest
\* closing fill
FillsSelected(orders, position) ==
  LET group == GroupOf(orders, position.positionId)
      opening == {o \in group : IsOpeningFill(o)}
      closing == {o \in group : IsClosingFill(o)}
  IN /\ \E o \in opening :
          /\ \A other \in opening : o.createdDate <= other.createdDate
          /\ position.openPrice = o.avgPrice
          /\ position.openTime = o.createdDate
          /\ position.side = ToLower(o.side)
          /\ position.qty = o.qty
     /\ \E c \in closing :
          /\ \A other \in closing : c.createdDate >= other.createdDate
          /\ position.exitPrice = c.avgPrice
          /\ position.closeTime = c.createdDate
          /\ position.orderId = c.id

\* C22: with several filled opening orders the entry price, time, side and
\* quantity of a position come from the one created earliest, with several
\* filled closing orders the exit price, time and closingOrderId come from the
\* one created latest, and the reconciled positions are the same for every
\* input order of the same orders (their timestamps distinct).
C22_DeterministicFills ==
  last.ran =>
    /\ \A k \in 1..Len(last.allClosedPositions) :
         FillsSelected(last.rawOrders, last.allClosedPositions[k])
    /\ \A other \in Rearrangements(last.rawOrders) :
         groupPositionOrders(other, InstrumentMap, FxRates, InstrumentFullMap)
           = last.allClosedPositions

\* The number of orders of the history that qualify as brackets of the kind
BracketsOfKind(orders, kind) ==
  Cardinality({i \in 1..Len(orders) :
                 /\ PosIdOf(orders[i]) = "A"
                 /\ IsBracket(orders[i], "sell")
                 /\ ToLower(orders[i].type) = kind})

\* What holds of C22: the fills are selected as stated in every run, and the
\* positions do not depend on the input order when no group holds two
\* brackets of one kind
C22_FillsAndSingleBrackets ==
  last.ran =>
    /\ \A k \in 1..Len(last.allClosedPositions) :
         FillsSelected(last.rawOrders, last.allClosedPositions[k])
    /\ BracketsOfKind(last.rawOrders, "stop") <= 1 =>
         \A other \in Rearrangements(last.rawOrders) :
           groupPositionOrders(other, InstrumentMap, FxRates, InstrumentFullMap)
             = last.allClosedPositions

\* The opening fill of the group that was created first
EarliestOpening(group) ==
  CHOOSE o \in {g \in group : IsOpeningFill(g)} :
    \A other \in {g \in group : IsOpeningFill(g)} : o.createdDate <= other.createdDate

\* The prices of the siblings that can stand in for a missing field of the
\* opening fill: on the other side, cancelled, pending or without status,
\* GTC, of the kind
SiblingPrices(group, opening, kind) ==
  {o.price : o \in {g \in group :
                      /\ ToLower(g.side) # ToLower(opening.side)
                      /\ ToLower(g.side) \in {"buy", "sell"}
                      /\ ToLower(g.status) \in {"cancelled", "pending", ""}
                      /\ ToUpper(g.validity) = "GTC"
                      /\ ToLower(g.type) = kind
                      /\ g.price # 0 /\ g.price # NullNum}}

\* The value of an SL / TP of a position given the field of its opening fill
\* and the sibling prices: the field when present, else a sibling's price,
\* else null
FieldOrSibling(value, field, siblings) ==
  IF field # NullNum /\ field # 0 THEN value = field
  ELSE IF siblings = {} THEN value = NullNum
  ELSE value \in siblings

\* C23: the stop-loss and take-profit of a position are the fields of its
\* opening order when present; an absent field is recovered from a sibling
\* of the group on the opposite side of the opening fill with status
\* cancelled, pending or empty and time in force GTC, a stop giving the
\* stop-loss and a limit the take-profit; a present field is never
\* overwritten.
C23_BracketFallback ==
  last.ran =>
    \A k \in 1..Len(last.allClosedPositions) :
      LET position == last.allClosedPositions[k]
          group == GroupOf(last.rawOrders, position.positionId)
          opening == EarliestOpening(group)
      IN /\ FieldOrSibling(position.stopLoss, opening.stopLoss,
                           SiblingPrices(group, opening, "stop"))
         /\ FieldOrSibling(position.takeProfit, opening.takeProfit,
                           SiblingPrices(group, opening, "limit"))

\* C23 witness: an opening fill without SL / TP, a closing fill, a cancelled
\* GTC sell stop at 90.00 and a GTC sell limit at 110.00 gave a position with
\* stopLoss 90.00 and takeProfit 110.00
C23_Witness ==
  /\ last.ran
  /\ {o.id : o \in Range(last.rawOrders)} = {"o1", "c1", "s1", "l1"}
  /\ Len(last.allClosedPositions) = 1
  /\ last.allClosedPositions[1].stopLoss = 9000
  /\ last.allClosedPositions[1].takeProfit = 11000

\* C23 witness of the present field: the stop-loss field of the opening fill
\* was kept although a bracket stop was in the group
C23_WitnessPrimary ==
  /\ last.ran
  /\ {o.id : o \in Range(last.rawOrders)} = {"o2", "c1", "s1", "l1"}
  /\ Len(last.allClosedPositions) = 1
  /\ last.allClosedPositions[1].stopLoss = 9500
  /\ last.allClosedPositions[1].takeProfit = 11000

\* TRUE when the order has no positionId
Blank(o) == PosIdOf(o) = ""

\* C24: an order whose positionId is missing or empty is in no position
\* group, the positions reconciled are those reconciled without it, and
\* neither the reconciliation nor the run fails because of it.
C24_BlankDropped ==
  (last.status # 0 /\ \E i \in 1..Len(broker) : Blank(broker[i])) =>
    LET NotBlank(o) == ~Blank(o)
    IN /\ last.ran
       /\ last.status = 200
       /\ last.allClosedPositions
            = groupPositionOrders(SelectSeq(last.rawOrders, NotBlank),
                                  InstrumentMap, FxRates, InstrumentFullMap)
       /\ \A k \in 1..Len(last.allClosedPositions) :
            /\ last.allClosedPositions[k].positionId # ""
            /\ \A o \in Range(last.rawOrders) :
                 Blank(o) =>
                   /\ last.allClosedPositions[k].orderId # o.id
                   /\ last.allClosedPositions[k].openPrice # o.avgPrice
                   /\ last.allClosedPositions[k].exitPrice # o.avgPrice
       /\ \A i \in 1..Len(trades) : trades[i].tradelockerTradeId # ""

\* C24 witness: a run over both fills without positionId and a round trip of
\* A stored the one trade of A
C24_Witness ==
  /\ last.ran /\ last.status = 200
  /\ {o.id : o \in Range(last.rawOrders)} = {"o1", "c1", "n1", "n2"}
  /\ Len(last.allClosedPositions) = 1
  /\ Len(trades) = 1

\* ------------------------------------------------------------------------
\* normalizeTradeLockerTrade on the two wire encodings of an order (SpecNorm)
\* ------------------------------------------------------------------------

\* The keys of a dense row, Object.keys of an array of 22 elements
DenseKeys ==
  {"0", "1", "2", "3", "4", "5", "6", "7", "8", "9", "10", "11", "12", "13", "14", "15",
   "16", "17", "18", "19", "20", "21"}

\* The keys whose values are strings ('' when empty); the others hold numbers
StringKeys ==
  {"0", "1", "4", "5", "6", "11", "15", "16", "18", "20",
   "id", "tradableInstrumentId", "side", "type", "status", "validity", "isOpen",
   "positionId"}

\* tradeData[k] for a key of numbers / of strings, undefined read as missing
GetNum(tradeData, k) == IF k \in DOMAIN tradeData THEN tradeData[k] ELSE NullNum
GetStr(tradeData, k) == IF k \in DOMAIN tradeData THEN tradeData[k] ELSE ""

\* The value of tradeData[k] is truthy
Truthy(tradeData, k) ==
  /\ k \in DOMAIN tradeData
  /\ IF k \in StringKeys THEN tradeData[k] # ""
     ELSE tradeData[k] # 0 /\ tradeData[k] # NullNum

RECURSIVE FirstTruthy(_, _, _)
\* tradeData.a || tradeData.b || ... || default
FirstTruthy(tradeData, chain, default) ==
  IF chain = <<>> THEN default
  ELSE IF Truthy(tradeData, Head(chain)) THEN tradeData[Head(chain)]
  ELSE FirstTruthy(tradeData, Tail(chain), default)

\* normalizeTradeLockerTrade(tradeData): the index branch for an object whose
\* keys are all numeric and at least 15, the named-field branch otherwise
normalizeTradeLockerTrade(tradeData) ==
  LET keys == DOMAIN tradeData
      hasNumericKeys == keys # {} /\ \A k \in keys : k \in DenseKeys
  IN IF hasNumericKeys /\ Cardinality(keys) >= 15
     THEN [ticket |-> GetStr(tradeData, "0"),
           tradableInstrumentId |-> GetStr(tradeData, "1"),
           volume |-> OrZero(GetNum(tradeData, "3")),
           type |-> ToLower(GetStr(tradeData, "4")),
           orderType |-> ToLower(GetStr(tradeData, "5")),
           status |-> ToLower(GetStr(tradeData, "6")),
           openPrice |-> OrZero(GetNum(tradeData, "8")),
           limitTriggerPrice |-> OrZero(GetNum(tradeData, "9")),
           timeInForce |-> GetStr(tradeData, "11"),
           openTime |-> GetNum(tradeData, "13"),
           isOpen |-> ToLower(GetStr(tradeData, "15")) = "true",
           positionId |-> GetStr(tradeData, "16"),
           stopPrice |-> IF GetNum(tradeData, "17") # NullNum
                         THEN GetNum(tradeData, "17") ELSE 0,
           takeProfit |-> IF GetNum(tradeData, "19") # NullNum
                          THEN GetNum(tradeData, "19") ELSE 0,
           closePrice |-> 0,
           closeTime |-> NullNum,
           parentOrderId |-> GetStr(tradeData, "16"),
           profit |-> 0]
     ELSE [ticket |-> FirstTruthy(tradeData, <<"ticket", "orderId", "id", "orderID", "0">>, ""),
           positionId |-> FirstTruthy(tradeData, <<"positionId", "positionID">>, ""),
           volume |-> FirstTruthy(tradeData,
                        <<"volume", "lotSize", "size", "quantity", "amount", "3">>, 0),
           type |-> ToLower(FirstTruthy(tradeData, <<"type", "side", "direction", "4">>, "")),
           orderType |-> ToLower(FirstTruthy(tradeData, <<"orderType", "type", "5">>, "")),
           status |-> ToLower(FirstTruthy(tradeData, <<"status", "state", "6">>, "")),
           openPrice |-> FirstTruthy(tradeData,
                           <<"openPrice", "open", "entryPrice", "avgPrice", "8">>, 0),
           closePrice |-> FirstTruthy(tradeData,
                            <<"closePrice", "close", "exitPrice", "price", "9">>, 0),
           stopPrice |-> FirstTruthy(tradeData,
                           <<"stopPrice", "stopLoss", "slPrice", "sl", "10">>, 0),
           takeProfit |-> FirstTruthy(tradeData, <<"takeProfit", "tpPrice", "tp", "12">>, 0),
           tradableInstrumentId |->
             FirstTruthy(tradeData, <<"tradableInstrumentId", "instrumentId", "symbolId", "1">>, ""),
           timeInForce |-> FirstTruthy(tradeData, <<"timeInForce", "11">>, ""),
           openTime |-> FirstTruthy(tradeData,
                          <<"openTime", "openTimestamp", "openDate", "entryTime", "13">>, NullNum),
           closeTime |-> FirstTruthy(tradeData,
                           <<"closeTime", "closeTimestamp", "closeDate", "exitTime", "14">>, NullNum),
           parentOrderId |-> FirstTruthy(tradeData, <<"parentOrderId", "parentId", "16">>, ""),
           price |-> FirstTruthy(tradeData, <<"price", "executionPrice", "17">>, 0),
           profit |-> FirstTruthy(tradeData, <<"profit", "pnl", "21">>, 0)]

\* The dense row of an order: its fields at the documented indices 0 .. 21,
\* null where the order has none
Dense(o) ==
  [k \in DenseKeys |->
     CASE k = "0" -> o.id
       [] k = "1" -> o.tradableInstrumentId
       [] k = "3" -> o.qty
       [] k = "4" -> o.side
       [] k = "5" -> o.type
       [] k = "6" -> o.status
       [] k = "8" -> o.avgPrice
       [] k = "9" -> o.price
       [] k = "11" -> o.validity
       [] k = "13" -> o.createdDate
       [] k = "15" -> o.isOpen
       [] k = "16" -> o.positionId
       [] k = "17" -> o.stopLoss
       [] k = "19" -> o.takeProfit
       [] k \in StringKeys -> ""
       [] OTHER -> NullNum]

\* The sparse object of an order: the fields that are set, under the names
\* of the ordersHistory configuration
Named(o) ==
  [k \in {f \in DOMAIN o : IF f \in StringKeys THEN o[f] # "" ELSE o[f] # NullNum} |-> o[k]]

\* The order as groupPositionOrders reads it: order[String(i)] / order[i]
\* at the documented indices
Indexed(tradeData) ==
  RawOrder(GetStr(tradeData, "0"), GetStr(tradeData, "1"), GetNum(tradeData, "3"),
           GetStr(tradeData, "4"), GetStr(tradeData, "5"), GetStr(tradeData, "6"),
           GetNum(tradeData, "8"), GetNum(tradeData, "9"), GetStr(tradeData, "11"),
           GetNum(tradeData, "13"), GetStr(tradeData, "15"), GetStr(tradeData, "16"),
           GetNum(tradeData, "17"), GetNum(tradeData, "19"))

\* The two encodings
Encodings == {"dense", "named"}
Encode(o, encoding) == IF encoding = "dense" THEN Dense(o) ELSE Named(o)

\* The values drawn for a numeric field: unset, zero, set
FieldValues(v) == {NullNum, 0, v}

\* An opening order with drawn quantity, trigger price, stop-loss and
\* take-profit, and the closing fill of its position; nothing computed yet
InitNorm ==
  /\ \E qty \in FieldValues(100), price \in FieldValues(10100), sl \in FieldValues(9500),
        tp \in FieldValues(11000), side \in {"buy", "Sell"}, pos \in {"A", ""} :
       calc = [order |-> RawOrder("o1", "i1", qty, side, "limit", "Filled", 10000, price,
                                  "GTC", 1, "true", pos, sl, tp),
               closing |-> RawOrder("c1", "i1", qty, IF side = "buy" THEN "sell" ELSE "buy",
                                    "market", "Filled", 10200, NullNum, "IOC", 2, "false",
                                    pos, NullNum, NullNum),
               normalized |-> [e \in Encodings |-> <<>>],
               positions |-> [e \in Encodings |-> <<>>]]
  /\ trades = EmptyLedger
  /\ broker = <<>>
  /\ settings = NoSettings
  /\ account = ConnectedAccount
  /\ clock = InitialClock
  /\ last = NoRun
  /\ prev = NoRun
  /\ peer = NoPeer
  /\ inflight = NoRequests
  /\ journal = NoJournal

\* normalizeTradeLockerTrade is applied to the order as it arrived in the
\* encoding
Normalize(encoding) ==
  /\ "normalized" \in DOMAIN calc
  /\ calc.normalized[encoding] = <<>>
  /\ calc' = [calc EXCEPT !.normalized[encoding] =
                <<normalizeTradeLockerTrade(Encode(calc.order, encoding))>>]
  /\ UNCHANGED <<trades, settings, account, broker, clock, last, prev, peer, inflight, journal>>

\* groupPositionOrders is applied to the two orders as they arrived in the
\* encoding
Reconcile(encoding) ==
  /\ "positions" \in DOMAIN calc
  /\ calc.positions[encoding] = <<>>
  /\ calc' = [calc EXCEPT !.positions[encoding] =
                <<groupPositionOrders(<<Indexed(Encode(calc.order, encoding)),
                                        Indexed(Encode(calc.closing, encoding))>>,
                                      InstrumentMap, FxRates, InstrumentFullMap)>>]
  /\ UNCHANGED <<trades, settings, account, broker, clock, last, prev, peer, inflight, journal>>

NextNorm ==
  \/ \E encoding \in Encodings : Normalize(encoding)
  \/ \E encoding \in Encodings : Reconcile(encoding)

SpecNorm == InitNorm /\ [][NextNorm]_vars

\* The trigger price of a normalized order
PriceOf(n) == IF "limitTriggerPrice" \in DOMAIN n THEN n.limitTriggerPrice ELSE n.price

\* C27: normalizeTradeLockerTrade maps an unset stop-loss, take-profit, price
\* or quantity of a raw order to null and never to 0, so that the unset field
\* differs in the normalized value from the field set to zero.
C27_NullNeverZero ==
  \A e \in Encodings :
    calc.normalized[e] # <<>> =>
      LET n == calc.normalized[e][1]
      IN /\ calc.order.stopLoss = NullNum => n.stopPrice = NullNum
         /\ calc.order.takeProfit = NullNum => n.takeProfit = NullNum
         /\ calc.order.price = NullNum => PriceOf(n) = NullNum
         /\ calc.order.qty = NullNum => n.volume = NullNum

\* The canonical value of a normalized order
Canonical(n) ==
  [id |-> n.ticket, positionId |-> n.positionId, side |-> n.type, quantity |-> n.volume,
   fillPrice |-> n.openPrice, stopLoss |-> n.stopPrice, takeProfit |-> n.takeProfit,
   openTime |-> n.openTime]

\* C28: normalizing the dense encoding of an order and normalizing its named
\* encoding give the same canonical value (order id, positionId, side,
\* quantity, fill price, SL / TP, timestamps), and the positions reconciled
\* from the orders are the same in either encoding.
C28_EncodingIndependence ==
  /\ (\A e \in Encodings : calc.normalized[e] # <<>>) =>
       Canonical(calc.normalized["dense"][1]) = Canonical(calc.normalized["named"][1])
  /\ (\A e \in Encodings : calc.positions[e] # <<>>) =>
       calc.positions["dense"][1] = calc.positions["named"][1]

\* What holds of the dense encoding: the canonical value carries the order's
\* id, positionId, side, fill price and creation time, and a round trip with
\* a positionId is reconciled to one position
C28_DenseDecoded ==
  /\ calc.normalized["dense"] # <<>> =>
       LET n == calc.normalized["dense"][1]
       IN /\ n.ticket = calc.order.id
          /\ n.positionId = calc.order.positionId
          /\ n.type = ToLower(calc.order.side)
          /\ n.openPrice = calc.order.avgPrice
          /\ n.openTime = calc.order.createdDate
  /\ calc.positions["dense"] # <<>> =>
       Len(calc.positions["dense"][1]) = (IF calc.order.positionId = "" THEN 0 ELSE 1)

\* ------------------------------------------------------------------------
\* The local journal of the browser app (SpecJournal): App.jsx and
\* utils/calculations.js.  Dates are days, amounts cents, the running balance
\* of recalculateBalances tenths of a cent.
\* ------------------------------------------------------------------------

\* The most ids issued, i.e. the most addTrade calls of a behaviour
MaxAdds == 3

\* Math.round(x * 100) / 100 for x in tenths of a cent, result in cents
RoundCents(x) == (x + 5) \div 10

\* Mutant: the balances are chained in the order of the array, unsorted
recalculateBalances_Unsorted(list, startingBalance) ==
  LET before == [k \in 1..Len(list) |->
                   startingBalance * 10
                     + 10 * (IF k = 1 THEN 0
                             ELSE LET Sum[j \in 0..(k - 1)] ==
                                        IF j = 0 THEN 0 ELSE Sum[j - 1] + list[j].pnl
                                  IN Sum[k - 1])]
  IN ArrayOf([k \in 1..Len(list) |->
                [list[k] EXCEPT !.openBalance = RoundCents(before[k]),
                                !.closeBalance = RoundCents(before[k] + 10 * list[k].pnl)]])

\* recalculateBalances(trades, startingBalance): a copy sorted by date, then
\* by id, with the balances chained from startingBalance and rounded to cents
recalculateBalances(list, startingBalance) ==
  LET sortedTrades ==
        StableSort(list, ArrayOf([k \in 1..Len(list) |->
                                    list[k].date * (MaxAdds + 2) + list[k].id]))
      n == Len(sortedTrades)
      Sum[j \in 0..n] == IF j = 0 THEN 0 ELSE Sum[j - 1] + sortedTrades[j].pnl
      before == [k \in 1..n |-> startingBalance * 10 + 10 * Sum[k - 1]]
  IN ArrayOf([k \in 1..n |->
                [sortedTrades[k] EXCEPT
                   !.openBalance = RoundCents(before[k]),
                   !.closeBalance = RoundCents(before[k] + 10 * sortedTrades[k].pnl)]])

\* The dates, P&Ls and balances the form can submit, and the starting
\* balances the settings can hold
JournalDates == {1, 2}
JournalPnls == {0 - 15050, 0, 27525}
FormBalances == {12345}
StartingBalances == {0, 100000}

\* tradeData as the form submits it: the balances are the form's own
TradeData(date, pnl, openBalance) ==
  [id |-> 0, date |-> date, pnl |-> pnl, openBalance |-> openBalance,
   closeBalance |-> openBalance + pnl]

\* The app after mount with nothing in localStorage
InitJournal ==
  /\ journal = NoJournal
  /\ trades = EmptyLedger
  /\ broker = <<>>
  /\ settings = NoSettings
  /\ account = ConnectedAccount
  /\ clock = InitialClock
  /\ last = NoRun
  /\ prev = NoRun
  /\ calc = NoCalc
  /\ peer = NoPeer
  /\ inflight = NoRequests

\* addTrade(tradeData): an id is issued, the trade appended, the balances
\* recalculated, the result set as state and written to localStorage
addTrade(tradeData) ==
  /\ journal.issued < MaxAdds
  /\ journal' =
       [journal EXCEPT
          !.trades = recalculateBalances(
                       Append(@, [tradeData EXCEPT !.id = journal.issued + 1]),
                       journal.startingBalance),
          !.issued = @ + 1,
          !.op = "add"]
  /\ UNCHANGED <<trades, settings, account, broker, clock, last, prev, calc, peer, inflight>>

\* updateTrade(id, updatedTrade): the trade of that id is replaced (keeping
\* the id), then as addTrade
updateTrade(id, updatedTrade) ==
  /\ journal' =
       [journal EXCEPT
          !.trades = recalculateBalances(
                       [k \in 1..Len(@) |->
                          IF @[k].id = id THEN [updatedTrade EXCEPT !.id = id] ELSE @[k]],
                       journal.startingBalance),
          !.op = "update"]
  /\ UNCHANGED <<trades, settings, account, broker, clock, last, prev, calc, peer, inflight>>

\* deleteTrade(id): the trades of that id are removed, then as addTrade
deleteTrade(id) ==
  /\ journal' =
       [journal EXCEPT
          !.trades = LET Other(t) == t.id # id
                     IN recalculateBalances(SelectSeq(@, Other), journal.startingBalance),
          !.op = "delete"]
  /\ UNCHANGED <<trades, settings, account, broker, clock, last, prev, calc, peer, inflight>>

\* saveSettings(newSettings): the settings are set and stored; the stored
\* trades are left as they are
saveSettings(startingBalance) ==
  /\ startingBalance # journal.startingBalance
  /\ journal' = [journal EXCEPT !.startingBalance = startingBalance, !.op = "settings"]
  /\ UNCHANGED <<trades, settings, account, broker, clock, last, prev, calc, peer, inflight>>

NextJournal ==
  \/ \E date \in JournalDates, pnl \in JournalPnls, openBalance \in FormBalances :
       addTrade(TradeData(date, pnl, openBalance))
  \/ \E id \in 1..MaxAdds, date \in JournalDates, pnl \in JournalPnls,
        openBalance \in FormBalances :
       updateTrade(id, TradeData(date, pnl, openBalance))
  \/ \E id \in 1..MaxAdds : deleteTrade(id)
  \/ \E startingBalance \in StartingBalances : saveSettings(startingBalance)

SpecJournal == InitJournal /\ [][NextJournal]_vars

\* The stored trades ordered by date
ByDate(list) == StableSort(list, ArrayOf([k \in 1..Len(list) |-> list[k].date]))

\* C21: after any sequence of addTrade, updateTrade and deleteTrade the
\* stored trades, ordered by date, are chained: the first opens at the
\* configured starting balance, each later one opens at the close of the one
\* before, and each closes at its open balance plus its P&L.
C21_JournalBalances ==
  journal.op \in {"add", "update", "delete"} =>
    LET ordered == ByDate(journal.trades)
    IN \A k \in 1..Len(ordered) :
         /\ ordered[k].openBalance
              = (IF k = 1 THEN journal.startingBalance ELSE ordered[k - 1].closeBalance)
         /\ ordered[k].closeBalance = ordered[k].openBalance + ordered[k].pnl

\* C21 witness: three trades stored after an update, the one added last
\* dated first and the other two on one day, with a starting balance that
\* was changed on the way and a loss as the last trade
C21_Witness ==
  /\ journal.op = "update"
  /\ Len(journal.trades) = 3
  /\ journal.trades[1].id = 3
  /\ journal.startingBalance = 0
  /\ journal.trades[1].openBalance = 0
  /\ journal.trades[3].closeBalance < journal.trades[3].openBalance
  /\ journal.trades[1].date < journal.trades[2].date
  /\ journal.trades[2].date = journal.trades[3].date

=============================================================================
